---------------------------- MODULE Spec2Model ----------------------------
(***************************************************************************)
(* Pairing protocol of the wayside badge firmware                          *)
(* (firmware/main/src/pairing.c, firmware/main/lib/pairing.h).             *)
(*                                                                         *)
(* A badge is a pairing_ctx_t driven by pairing_handle_recv, pairing_tick, *)
(* pairing_reset and the setters.  Datagrams are byte sequences laid out   *)
(* as the packed broadcast_header_t followed by the bitmask and an         *)
(* optional NUL-terminated string.  Every handler is an operator from a    *)
(* machine record [c, tx, ble, peers] to the machine after the call:       *)
(*   c     the pairing_ctx_t,                                              *)
(*   tx    the esp_now_send calls the handler made, in order,              *)
(*   ble   the ble_send_message calls the handler made, in order,          *)
(*   peers the ESP-NOW peer table.                                         *)
(*                                                                         *)
(* C representation used throughout:                                       *)
(*   - a byte is a number 0..255, a buffer a sequence of bytes;            *)
(*   - a heap pointer is the buffer it points to, NULL the empty sequence  *)
(*     (every malloc in pairing.c has a size >= 1);                        *)
(*   - a char array or char pointer is the string INCLUDING its NUL, so    *)
(*     the empty string is <<0>> and a NULL char pointer is <<>>.          *)
(***************************************************************************)
EXTENDS Integers, Sequences, FiniteSets, TLC

VARIABLES
    ctx,     \* ctx[b]: the pairing_ctx_t of badge b (badges are named by MAC)
    peers,   \* peers[b]: the ESP-NOW peer table of badge b
    now,     \* the millisecond clock read by get_time_ms
    op,      \* the last call made: entry point, badge, state it found the badge in
    tx,      \* the esp_now_send calls made by the last call
    ble,     \* the ble_send_message calls made by the last call
    air,     \* datagrams in flight between badges (closed-network specification)
    ret,     \* what the last direct call of a pure function was given and returned
    queue,   \* s_espnow_queue: the events posted and not yet received
    mem,     \* mem[a]: the heap block at address a, allocated or not, and its bytes
    cb,      \* the Wi-Fi task: the callback it is in and the event that is building
    task,    \* espnow_task: its place in the loop and the event it received
    fault    \* what has gone wrong on the heap so far

\* the state of the dispatch loop and the callbacks around it
rtos == <<queue, mem, cb, task, fault>>

vars == <<ctx, peers, now, op, tx, ble, air, ret, rtos>>

---------------------------------------------------------------------------
(* Program constants                                                       *)

PAIRING_KEY_MAX_LEN == 512
PAIRING_BITMASK_MAX_LEN == 256
KEY_EXCHANGE_URL_MAX_LEN == 512
PAIRING_PROTOCOL_ID == 66
PAIRING_REBROADCAST_MS == 500
PAIRING_TIMEOUT_MS == 5000
PAIRING_HEARTBEAT_MS == 1000
PAIRING_HEARTBEAT_MISS_MAX == 5
PAIRING_DEFAULT_SIMILARITY_THRESHOLD == 50
RSSI_ZONE_MEDIUM == -70
PAIRING_MIN_RSSI_PROPOSING == RSSI_ZONE_MEDIUM
ESP_NOW_ETH_ALEN == 6
HEADER_SIZE == 26

MSG_HELLO == 1
MSG_PROPOSAL == 2
MSG_ACCEPT == 3
MSG_REJECT == 4
MSG_HEARTBEAT == 5
MSG_KEY_EXCHANGE == 6
MSG_RELAY_URL == 7

SEARCHING == 0
PROPOSING == 1
PAIRED == 2

NULL == <<>>
EmptyStr == <<0>>

---------------------------------------------------------------------------
(* Bytes, integers and strings as the C code sees them                     *)

Min(a, b) == IF a < b THEN a ELSE b

Take(s, n) == SubSeq(s, 1, Min(n, Len(s)))

Zeros(n) == [i \in 1..n |-> 0]

\* little-endian encodings of the packed header's multi-byte fields
LE16(n) == <<n % 256, (n \div 256) % 256>>

LE32(n) == <<n % 256, (n \div 256) % 256, (n \div 65536) % 256, (n \div 16777216) % 256>>

RdLE16(data, off) == data[off + 1] + 256 * data[off + 2]

RdLE32(data, off) ==
    data[off + 1] + 256 * data[off + 2] + 65536 * data[off + 3] + 16777216 * data[off + 4]

\* int8_t stored in a byte
Int8ToByte(r) == r % 256

RECURSIVE PopCount(_)
PopCount(b) == IF b = 0 THEN 0 ELSE (b % 2) + PopCount(b \div 2)

RECURSIVE BitAnd(_, _)
BitAnd(a, b) ==
    IF a = 0 \/ b = 0 THEN 0
    ELSE (IF a % 2 = 1 /\ b % 2 = 1 THEN 1 ELSE 0) + 2 * BitAnd(a \div 2, b \div 2)

\* sign of memcmp(a, b, n): the first differing byte decides, compared unsigned
RECURSIVE MemcmpFrom(_, _, _, _)
MemcmpFrom(a, b, i, n) ==
    IF i > n THEN 0
    ELSE IF a[i] < b[i] THEN -1
    ELSE IF a[i] > b[i] THEN 1
    ELSE MemcmpFrom(a, b, i + 1, n)

memcmp(a, b, n) == MemcmpFrom(a, b, 1, n)

\* index of the first NUL of s at or after i, 0 when s holds none
FirstNul(s, i) ==
    LET nuls == {k \in i..Len(s) : s[k] = 0}
    IN  IF nuls = {} THEN 0 ELSE CHOOSE k \in nuls : \A j \in nuls : k <= j

strlen(s) == FirstNul(s, 1) - 1

\* strncpy(dst, src, cap - 1); dst[cap - 1] = '\0': the string dst then holds.
\* src is the memory starting at the source pointer; it must hold a NUL
\* (callers append what lies behind an unterminated buffer).
strncpy_term(src, cap) == Append(Take(src, Min(strlen(src), cap - 1)), 0)

ZeroMac == Zeros(ESP_NOW_ETH_ALEN)
espnow_broadcast_mac == [i \in 1..ESP_NOW_ETH_ALEN |-> 255]

\* esp_now.h: the most peers the transport registers
ESP_NOW_MAX_TOTAL_PEER_NUM == 20


---------------------------------------------------------------------------
(* The context and the machine around it                                   *)

ZeroKex ==
    [active |-> FALSE, key_sent |-> FALSE, key_confirmed |-> FALSE,
     notified_phone |-> FALSE, outgoing_url |-> EmptyStr, incoming_url |-> EmptyStr,
     has_outgoing_url |-> FALSE, outgoing_url_sent |-> FALSE, has_incoming_url |-> FALSE]

\* xTaskGetTickCount() * portTICK_PERIOD_MS as uint32_t.  The clock of the
\* model stays far below 2^31 ms (the checker's integers are 32-bit signed),
\* so the 49-day wrap of the counter is outside the model.
get_time_ms(t) == t

\* uint32_t subtraction now - then, for then <= now
Elapsed(t, then) == t - then

pairing_init(mac, t) ==
    [my_mac |-> mac, partner_mac |-> ZeroMac, current_state |-> SEARCHING,
     last_action_time |-> get_time_ms(t), last_heartbeat_sent |-> 0,
     last_heartbeat_recv |-> 0, heartbeat_seq |-> 0, partner_seq |-> 0,
     missed_heartbeats |-> 0, partner_rssi |-> 0, proposal_rssi |-> 0,
     bitmask |-> NULL, bitmask_len |-> 0,
     partner_bitmask |-> NULL, partner_bitmask_len |-> 0,
     my_public_key |-> EmptyStr, partner_public_key |-> EmptyStr,
     has_bitmask |-> FALSE, has_pubkey |-> FALSE,
     similarity_threshold |-> PAIRING_DEFAULT_SIMILARITY_THRESHOLD,
     kex |-> ZeroKex]

\* the machine before a call: nothing sent, nothing notified yet
Machine(c, p) == [c |-> c, tx |-> <<>>, ble |-> <<>>, peers |-> p]

esp_now_send(M, dst, data) == [M EXCEPT !.tx = Append(@, [dst |-> dst, data |-> data])]

ble_send_message(M, msg) == [M EXCEPT !.ble = Append(@, msg)]

\* the transport's peer table holds ESP_NOW_MAX_TOTAL_PEER_NUM addresses, the
\* broadcast address among them; adding to a full table fails and
\* register_peer does not look at the result
esp_now_add_peer(M, mac) ==
    IF Cardinality(M.peers) >= ESP_NOW_MAX_TOTAL_PEER_NUM
    THEN M
    ELSE [M EXCEPT !.peers = @ \cup {mac}]

register_peer(M, mac) ==
    IF mac \in M.peers THEN M ELSE esp_now_add_peer(M, mac)

\* seeded fault: readiness that forgets the public key
pairing_is_ready_bitmask_only(c) == c.has_bitmask

pairing_is_ready(c) == c.has_bitmask /\ c.has_pubkey

\* seeded fault: a reset that leaves the key-exchange subcontext alone
pairing_reset_keeps_kex(c, t) ==
    [c EXCEPT !.current_state = SEARCHING,
              !.partner_mac = ZeroMac,
              !.partner_public_key = EmptyStr,
              !.partner_bitmask = NULL,
              !.partner_bitmask_len = 0,
              !.last_action_time = get_time_ms(t)]

\* seeded fault: a reset that restarts the heartbeat numbering
pairing_reset_zeroes_seq(c, t) ==
    [c EXCEPT !.current_state = SEARCHING,
              !.partner_mac = ZeroMac,
              !.partner_public_key = EmptyStr,
              !.partner_bitmask = NULL,
              !.partner_bitmask_len = 0,
              !.kex = ZeroKex,
              !.heartbeat_seq = 0,
              !.last_action_time = get_time_ms(t)]

pairing_reset(c, t) ==
    [c EXCEPT !.current_state = SEARCHING,
              !.partner_mac = ZeroMac,
              !.partner_public_key = EmptyStr,
              !.partner_bitmask = NULL,
              !.partner_bitmask_len = 0,
              !.kex = ZeroKex,
              !.last_action_time = get_time_ms(t)]

---------------------------------------------------------------------------
(* Packet codec                                                            *)

\* the packed broadcast_header_t as it lies in memory (little-endian target)
HeaderBytes(h) ==
    <<h.protocol_id, h.msg_type>> \o h.sender_mac \o h.partner_mac
    \o LE32(h.uptime_ms) \o <<h.state, Int8ToByte(h.last_rssi)>>
    \o LE32(h.seq_num) \o LE16(h.bitmask_len)

\* the fields pairing_handle_recv and parse_incoming_packet read through the
\* broadcast_header_t cast
hdr_protocol_id(data) == data[1]

hdr_msg_type(data) == data[2]

hdr_seq_num(data) == RdLE32(data, 20)

hdr_bitmask_len(data) == RdLE16(data, 24)

\* a header with protocol id, type, sequence number and bitmask length set and
\* the rest filled in by fill_packet_header
fill_packet_header(c, msg_type, seq_num, bitmask_len, t) ==
    [protocol_id |-> PAIRING_PROTOCOL_ID, msg_type |-> msg_type,
     sender_mac |-> c.my_mac, partner_mac |-> c.partner_mac,
     uptime_ms |-> get_time_ms(t), state |-> c.current_state,
     last_rssi |-> c.partner_rssi, seq_num |-> seq_num, bitmask_len |-> bitmask_len]

\* the buffer build_packet_with_bitmask fills, <<>> when it returns 0.
\* pubkey is a string with its NUL, or NULL.
build_packet_with_bitmask(c, buf_size, msg_type, pubkey, t) ==
    LET pubkey_len == IF pubkey # NULL THEN strlen(pubkey) + 1 ELSE 0
        total_size == HEADER_SIZE + c.bitmask_len + pubkey_len
        hdr == HeaderBytes(fill_packet_header(c, msg_type, 0, c.bitmask_len, t))
        mask == IF c.bitmask_len > 0 /\ c.bitmask # NULL THEN Take(c.bitmask, c.bitmask_len) ELSE <<>>
        body == hdr \o mask \o Take(pubkey, pubkey_len)
    IN  IF total_size > buf_size THEN <<>>
        ELSE body \o Zeros(total_size - Len(body))

\* parse_incoming_packet on the received buffer: ok, the bitmask view and the
\* trailing view (NULL when nothing follows the bitmask)
parse_incoming_packet(data) ==
    LET len == Len(data)
        bad == [ok |-> FALSE, bitmask |-> NULL, bitmask_len |-> 0, pubkey |-> NULL]
    IN  IF len < HEADER_SIZE THEN bad
        ELSE LET bitmask_len == hdr_bitmask_len(data)
             IN  IF bitmask_len > PAIRING_BITMASK_MAX_LEN THEN bad
                 ELSE IF HEADER_SIZE + bitmask_len > len THEN bad
                 ELSE [ok |-> TRUE,
                       bitmask |-> SubSeq(data, HEADER_SIZE + 1, HEADER_SIZE + bitmask_len),
                       bitmask_len |-> bitmask_len,
                       pubkey |-> SubSeq(data, HEADER_SIZE + bitmask_len + 1, len)]

---------------------------------------------------------------------------
(* Similarity                                                              *)

RECURSIVE SumPop(_, _, _)
SumPop(a, i, n) == IF i > n THEN 0 ELSE PopCount(a[i]) + SumPop(a, i + 1, n)

RECURSIVE SumAnd(_, _, _, _)
SumAnd(a, b, i, n) ==
    IF i > n THEN 0 ELSE PopCount(BitAnd(a[i], b[i])) + SumAnd(a, b, i + 1, n)

\* seeded fault: the common bits are measured against the bits of a alone
calculate_bitmask_similarity_over_a(a, a_len, b, b_len) ==
    IF a = NULL \/ b = NULL \/ a_len = 0 \/ b_len = 0 THEN 0
    ELSE LET min_len == Min(a_len, b_len)
             and_count == SumAnd(a, b, 1, min_len)
             a_count == SumPop(a, 1, min_len) + SumPop(a, min_len + 1, a_len)
         IN  IF a_count = 0 THEN 0 ELSE ((200 * and_count) \div a_count) % 256

\* seeded fault: the quotient is rounded to the nearest integer
calculate_bitmask_similarity_rounded(a, a_len, b, b_len) ==
    IF a = NULL \/ b = NULL \/ a_len = 0 \/ b_len = 0 THEN 0
    ELSE LET min_len == Min(a_len, b_len)
             and_count == SumAnd(a, b, 1, min_len)
             a_count == SumPop(a, 1, min_len) + SumPop(a, min_len + 1, a_len)
             b_count == SumPop(b, 1, min_len) + SumPop(b, min_len + 1, b_len)
             total == a_count + b_count
         IN  IF total = 0 THEN 0
             ELSE ((200 * and_count + total \div 2) \div total) % 256

\* seeded fault: the bits of b beyond the common length are not counted
calculate_bitmask_similarity_short_b(a, a_len, b, b_len) ==
    IF a = NULL \/ b = NULL \/ a_len = 0 \/ b_len = 0 THEN 0
    ELSE LET min_len == Min(a_len, b_len)
             and_count == SumAnd(a, b, 1, min_len)
             a_count == SumPop(a, 1, min_len) + SumPop(a, min_len + 1, a_len)
             b_count == SumPop(b, 1, min_len)
             total == a_count + b_count
         IN  IF total = 0 THEN 0 ELSE ((200 * and_count) \div total) % 256

calculate_bitmask_similarity(a, a_len, b, b_len) ==
    IF a = NULL \/ b = NULL \/ a_len = 0 \/ b_len = 0 THEN 0
    ELSE LET min_len == Min(a_len, b_len)
             and_count == SumAnd(a, b, 1, min_len)
             a_count == SumPop(a, 1, min_len) + SumPop(a, min_len + 1, a_len)
             b_count == SumPop(b, 1, min_len) + SumPop(b, min_len + 1, b_len)
             total == a_count + b_count
         IN  IF total = 0 THEN 0 ELSE ((200 * and_count) \div total) % 256

---------------------------------------------------------------------------
(* Senders                                                                 *)

\* sizes of the stack buffers the senders build their packets in
HelloBufSize == HEADER_SIZE + PAIRING_BITMASK_MAX_LEN

PairBufSize == HEADER_SIZE + PAIRING_BITMASK_MAX_LEN + PAIRING_KEY_MAX_LEN

KeyBufSize == HEADER_SIZE + PAIRING_KEY_MAX_LEN

RelayBufSize == HEADER_SIZE + KEY_EXCHANGE_URL_MAX_LEN

\* send the packet unless build_packet_with_bitmask returned 0
send_built(M, dst, pkt) == IF Len(pkt) > 0 THEN esp_now_send(M, dst, pkt) ELSE M

send_hello(M, t) ==
    send_built(M, espnow_broadcast_mac,
               build_packet_with_bitmask(M.c, HelloBufSize, MSG_HELLO, NULL, t))

\* seeded fault: a heartbeat that leaves the counter where it was
send_heartbeat_stuck(M, t) ==
    LET pkt == HeaderBytes(fill_packet_header(M.c, MSG_HEARTBEAT, M.c.heartbeat_seq, 0, t))
    IN  esp_now_send(M, M.c.partner_mac, pkt)

send_heartbeat(M, t) ==
    LET pkt == HeaderBytes(fill_packet_header(M.c, MSG_HEARTBEAT, M.c.heartbeat_seq, 0, t))
        M1 == [M EXCEPT !.c.heartbeat_seq = @ + 1]
    IN  esp_now_send(M1, M.c.partner_mac, pkt)

\* seeded fault: an ACCEPT that carries no key
accept_pairing_keyless(M, target_mac, t) ==
    LET M1 == [M EXCEPT !.c.partner_mac = target_mac,
                        !.c.current_state = PAIRED,
                        !.c.last_heartbeat_sent = get_time_ms(t),
                        !.c.last_heartbeat_recv = get_time_ms(t),
                        !.c.heartbeat_seq = 0,
                        !.c.kex = [ZeroKex EXCEPT !.active = TRUE]]
        M2 == register_peer(M1, target_mac)
        pkt == build_packet_with_bitmask(M2.c, PairBufSize, MSG_ACCEPT, NULL, t)
    IN  send_built(M2, target_mac, pkt)

\* seeded fault: a proposal to a peer the transport was never told about
propose_pairing_unregistered(M, target_mac, t, send_ok) ==
    LET M1 == [M EXCEPT !.c.partner_mac = target_mac,
                        !.c.current_state = PROPOSING,
                        !.c.last_action_time = get_time_ms(t)]
        pkt == build_packet_with_bitmask(M1.c, PairBufSize, MSG_PROPOSAL, M1.c.my_public_key, t)
        M3 == send_built(M1, target_mac, pkt)
    IN  IF Len(pkt) > 0 /\ ~send_ok
        THEN [M3 EXCEPT !.c.current_state = SEARCHING]
        ELSE M3

\* send_ok: whether esp_now_send returns ESP_OK for the PROPOSAL
propose_pairing(M, target_mac, t, send_ok) ==
    LET M1 == [M EXCEPT !.c.partner_mac = target_mac,
                        !.c.current_state = PROPOSING,
                        !.c.last_action_time = get_time_ms(t)]
        M2 == register_peer(M1, target_mac)
        pkt == build_packet_with_bitmask(M2.c, PairBufSize, MSG_PROPOSAL, M2.c.my_public_key, t)
        M3 == send_built(M2, target_mac, pkt)
    IN  IF Len(pkt) > 0 /\ ~send_ok
        THEN [M3 EXCEPT !.c.current_state = SEARCHING]
        ELSE M3

accept_pairing(M, target_mac, t) ==
    LET M1 == [M EXCEPT !.c.partner_mac = target_mac,
                        !.c.current_state = PAIRED,
                        !.c.last_heartbeat_sent = get_time_ms(t),
                        !.c.last_heartbeat_recv = get_time_ms(t),
                        !.c.heartbeat_seq = 0,
                        !.c.kex = [ZeroKex EXCEPT !.active = TRUE]]
        M2 == register_peer(M1, target_mac)
        pkt == build_packet_with_bitmask(M2.c, PairBufSize, MSG_ACCEPT, M2.c.my_public_key, t)
    IN  send_built(M2, target_mac, pkt)

\* seeded fault: the peer is registered and the REJECT never sent
send_reject_silent(M, target_mac, t) == register_peer(M, target_mac)

send_reject(M, target_mac, t) ==
    LET M1 == register_peer(M, target_mac)
        pkt == HeaderBytes(fill_packet_header(M1.c, MSG_REJECT, 0, 0, t))
    IN  esp_now_send(M1, target_mac, pkt)

\* seeded fault: a heartbeat that does not restart the loss timer
handle_heartbeat_stale(c, data, rssi, t) ==
    [c EXCEPT !.missed_heartbeats = 0,
              !.partner_seq = hdr_seq_num(data),
              !.partner_rssi = rssi]

handle_heartbeat(c, data, rssi, t) ==
    [c EXCEPT !.last_heartbeat_recv = get_time_ms(t),
              !.missed_heartbeats = 0,
              !.partner_seq = hdr_seq_num(data),
              !.partner_rssi = rssi]

send_key_exchange(M, t) ==
    send_built(M, M.c.partner_mac,
               build_packet_with_bitmask(M.c, KeyBufSize, MSG_KEY_EXCHANGE,
                                         M.c.partner_public_key, t))

send_relay_url(M, t) ==
    send_built(M, M.c.partner_mac,
               build_packet_with_bitmask(M.c, RelayBufSize, MSG_RELAY_URL,
                                         M.c.kex.outgoing_url, t))

---------------------------------------------------------------------------
(* pairing_handle_recv                                                     *)

\* free the partner bitmask, malloc(len) and copy: on a failed malloc the
\* pointer is NULL and partner_bitmask_len keeps its old value
store_partner_bitmask(c, bitmask, len, malloc_ok) ==
    IF malloc_ok
    THEN [c EXCEPT !.partner_bitmask = Take(bitmask, len), !.partner_bitmask_len = len]
    ELSE [c EXCEPT !.partner_bitmask = NULL]

\* strncpy of the received trailing string into a char array of cap bytes.
\* heap is the memory behind the received buffer, read when the trailing
\* bytes hold no NUL; it ends with a NUL.
store_string(pubkey, heap, cap) == strncpy_term(pubkey \o heap, cap)

\* seeded fault: on equal RSSI the lesser address wins
is_closer_lesser_address(c, mac_addr, rssi) ==
    \/ rssi > c.proposal_rssi
    \/ /\ rssi = c.proposal_rssi
       /\ memcmp(mac_addr, c.partner_mac, ESP_NOW_ETH_ALEN) < 0

\* rssi above the recorded proposal_rssi, or equal with the greater address
is_closer(c, mac_addr, rssi) ==
    \/ rssi > c.proposal_rssi
    \/ /\ rssi = c.proposal_rssi
       /\ memcmp(mac_addr, c.partner_mac, ESP_NOW_ETH_ALEN) > 0

\* seeded fault: an ACCEPT is ignored for a missing key only
accept_ignored_keyless_only(P, rssi) == P.pubkey = NULL

\* the two early breaks of the ACCEPT branch: no key, or RSSI below the floor
accept_ignored(P, rssi) ==
    \/ P.pubkey = NULL
    \/ rssi < PAIRING_MIN_RSSI_PROPOSING

\* case SEARCHING of the switch
recv_searching(M, mac_addr, data, P, rssi, t, env) ==
    LET c == M.c
        type == hdr_msg_type(data)
    IN  IF type = MSG_HELLO THEN
            IF P.bitmask = NULL \/ P.bitmask_len = 0 THEN M
            ELSE IF calculate_bitmask_similarity(c.bitmask, c.bitmask_len,
                                                 P.bitmask, P.bitmask_len)
                        < c.similarity_threshold THEN M
            ELSE LET c1 == store_partner_bitmask(c, P.bitmask, P.bitmask_len, env.malloc_ok)
                     c2 == [c1 EXCEPT !.proposal_rssi = rssi]
                 IN  propose_pairing([M EXCEPT !.c = c2], mac_addr, t, env.send_ok)
        ELSE IF type = MSG_PROPOSAL THEN
            IF P.pubkey = NULL \/ P.bitmask = NULL THEN M
            ELSE LET c1 == [c EXCEPT !.partner_public_key =
                                         store_string(P.pubkey, env.heap, PAIRING_KEY_MAX_LEN)]
                     c2 == store_partner_bitmask(c1, P.bitmask, P.bitmask_len, env.malloc_ok)
                 IN  accept_pairing([M EXCEPT !.c = c2], mac_addr, t)
        ELSE M

\* seeded fault: a REJECT from any sender ends the proposal
recv_proposing_any_reject(M, mac_addr, data, P, rssi, t, env) ==
    LET c == M.c
        type == hdr_msg_type(data)
    IN  IF type = MSG_REJECT THEN [M EXCEPT !.c.current_state = SEARCHING]
        ELSE IF memcmp(c.partner_mac, mac_addr, ESP_NOW_ETH_ALEN) = 0 THEN
            IF type = MSG_ACCEPT THEN
                IF accept_ignored(P, rssi) THEN M
                ELSE LET c1 == [c EXCEPT !.partner_public_key =
                                             store_string(P.pubkey, env.heap, PAIRING_KEY_MAX_LEN)]
                         c2 == IF P.bitmask # NULL /\ P.bitmask_len > 0
                               THEN store_partner_bitmask(c1, P.bitmask, P.bitmask_len,
                                                          env.malloc_ok)
                               ELSE c1
                     IN  [M EXCEPT !.c =
                             [c2 EXCEPT !.current_state = PAIRED,
                                        !.last_heartbeat_sent = get_time_ms(t),
                                        !.last_heartbeat_recv = get_time_ms(t),
                                        !.heartbeat_seq = 0,
                                        !.partner_seq = 0,
                                        !.missed_heartbeats = 0,
                                        !.partner_rssi = rssi,
                                        !.kex = [ZeroKex EXCEPT !.active = TRUE]]]
            ELSE M
        ELSE IF type = MSG_PROPOSAL THEN
            IF rssi < PAIRING_MIN_RSSI_PROPOSING THEN send_reject(M, mac_addr, t)
            ELSE IF P.pubkey = NULL \/ P.bitmask = NULL THEN send_reject(M, mac_addr, t)
            ELSE IF ~is_closer(c, mac_addr, rssi) THEN send_reject(M, mac_addr, t)
            ELSE LET c1 == [c EXCEPT !.partner_public_key =
                                         store_string(P.pubkey, env.heap, PAIRING_KEY_MAX_LEN)]
                     c2 == store_partner_bitmask(c1, P.bitmask, P.bitmask_len, env.malloc_ok)
                     c3 == [c2 EXCEPT !.proposal_rssi = rssi]
                 IN  accept_pairing([M EXCEPT !.c = c3], mac_addr, t)
        ELSE M

\* case PROPOSING of the switch
recv_proposing(M, mac_addr, data, P, rssi, t, env) ==
    LET c == M.c
        type == hdr_msg_type(data)
    IN  IF memcmp(c.partner_mac, mac_addr, ESP_NOW_ETH_ALEN) = 0 THEN
            IF type = MSG_ACCEPT THEN
                IF accept_ignored(P, rssi) THEN M
                ELSE LET c1 == [c EXCEPT !.partner_public_key =
                                             store_string(P.pubkey, env.heap, PAIRING_KEY_MAX_LEN)]
                         c2 == IF P.bitmask # NULL /\ P.bitmask_len > 0
                               THEN store_partner_bitmask(c1, P.bitmask, P.bitmask_len,
                                                          env.malloc_ok)
                               ELSE c1
                     IN  [M EXCEPT !.c =
                             [c2 EXCEPT !.current_state = PAIRED,
                                        !.last_heartbeat_sent = get_time_ms(t),
                                        !.last_heartbeat_recv = get_time_ms(t),
                                        !.heartbeat_seq = 0,
                                        !.partner_seq = 0,
                                        !.missed_heartbeats = 0,
                                        !.partner_rssi = rssi,
                                        !.kex = [ZeroKex EXCEPT !.active = TRUE]]]
            ELSE IF type = MSG_REJECT THEN [M EXCEPT !.c.current_state = SEARCHING]
            ELSE M
        ELSE IF type = MSG_PROPOSAL THEN
            IF rssi < PAIRING_MIN_RSSI_PROPOSING THEN send_reject(M, mac_addr, t)
            ELSE IF P.pubkey = NULL \/ P.bitmask = NULL THEN send_reject(M, mac_addr, t)
            ELSE IF ~is_closer(c, mac_addr, rssi) THEN send_reject(M, mac_addr, t)
            ELSE LET c1 == [c EXCEPT !.partner_public_key =
                                         store_string(P.pubkey, env.heap, PAIRING_KEY_MAX_LEN)]
                     c2 == store_partner_bitmask(c1, P.bitmask, P.bitmask_len, env.malloc_ok)
                     c3 == [c2 EXCEPT !.proposal_rssi = rssi]
                 IN  accept_pairing([M EXCEPT !.c = c3], mac_addr, t)
        ELSE M

\* seeded fault: a RELAY_URL is taken from any sender
recv_paired_any_relay(M, mac_addr, data, P, rssi, t, env) ==
    LET c == M.c
        type == hdr_msg_type(data)
        relay == IF P.pubkey # NULL
                 THEN [M EXCEPT !.c.kex.incoming_url =
                                    store_string(P.pubkey, env.heap, KEY_EXCHANGE_URL_MAX_LEN),
                                !.c.kex.has_incoming_url = TRUE]
                 ELSE M
    IN  IF type = MSG_RELAY_URL THEN relay
        ELSE IF memcmp(c.partner_mac, mac_addr, ESP_NOW_ETH_ALEN) = 0 THEN
            IF type = MSG_HEARTBEAT THEN [M EXCEPT !.c = handle_heartbeat(c, data, rssi, t)]
            ELSE IF type = MSG_KEY_EXCHANGE THEN [M EXCEPT !.c.kex.key_confirmed = TRUE]
            ELSE M
        ELSE IF type = MSG_PROPOSAL THEN send_reject(M, mac_addr, t)
        ELSE M

\* case PAIRED of the switch
recv_paired(M, mac_addr, data, P, rssi, t, env) ==
    LET c == M.c
        type == hdr_msg_type(data)
    IN  IF memcmp(c.partner_mac, mac_addr, ESP_NOW_ETH_ALEN) = 0 THEN
            IF type = MSG_HEARTBEAT THEN [M EXCEPT !.c = handle_heartbeat(c, data, rssi, t)]
            ELSE IF type = MSG_KEY_EXCHANGE THEN [M EXCEPT !.c.kex.key_confirmed = TRUE]
            ELSE IF type = MSG_RELAY_URL THEN
                IF P.pubkey # NULL
                THEN [M EXCEPT !.c.kex.incoming_url =
                                   store_string(P.pubkey, env.heap, KEY_EXCHANGE_URL_MAX_LEN),
                               !.c.kex.has_incoming_url = TRUE]
                ELSE M
            ELSE M
        ELSE IF type = MSG_PROPOSAL THEN send_reject(M, mac_addr, t)
        ELSE M

\* seeded fault: the protocol id of the datagram is never looked at
pairing_handle_recv_any_magic(M, mac_addr, data, rssi, t, env) ==
    IF ~pairing_is_ready(M.c) THEN M
    ELSE IF Len(data) < HEADER_SIZE THEN M
    ELSE LET P == parse_incoming_packet(data)
         IN  IF ~P.ok THEN M
             ELSE IF M.c.current_state = SEARCHING
                  THEN recv_searching(M, mac_addr, data, P, rssi, t, env)
             ELSE IF M.c.current_state = PROPOSING
                  THEN recv_proposing(M, mac_addr, data, P, rssi, t, env)
             ELSE IF M.c.current_state = PAIRED
                  THEN recv_paired(M, mac_addr, data, P, rssi, t, env)
             ELSE M

\* env: [malloc_ok, send_ok, heap], what the allocator, the transport and the
\* memory behind the received buffer do during this call
pairing_handle_recv(M, mac_addr, data, rssi, t, env) ==
    IF ~pairing_is_ready(M.c) THEN M
    ELSE IF Len(data) < HEADER_SIZE THEN M
    ELSE IF hdr_protocol_id(data) # PAIRING_PROTOCOL_ID THEN M
    ELSE LET P == parse_incoming_packet(data)
         IN  IF ~P.ok THEN M
             ELSE IF M.c.current_state = SEARCHING
                  THEN recv_searching(M, mac_addr, data, P, rssi, t, env)
             ELSE IF M.c.current_state = PROPOSING
                  THEN recv_proposing(M, mac_addr, data, P, rssi, t, env)
             ELSE IF M.c.current_state = PAIRED
                  THEN recv_paired(M, mac_addr, data, P, rssi, t, env)
             ELSE M

---------------------------------------------------------------------------
(* pairing_tick                                                            *)

\* snprintf(msg, size, "<prefix>%s\r", str): the string msg then holds
snprintf_msg(size, prefix, str) ==
    Append(Take(prefix \o Take(str, strlen(str)) \o <<13>>, size - 1), 0)

\* "PARTNER:" and "RECV_URL:" in ASCII
PartnerPrefix == <<80, 65, 82, 84, 78, 69, 82, 58>>

RecvUrlPrefix == <<82, 69, 67, 86, 95, 85, 82, 76, 58>>

\* seeded fault: the phone is told the partner's key on every tick
tick_kex_renotify(M, t) ==
    LET key(m) ==
            IF ~m.c.kex.key_sent
            THEN [send_key_exchange(m, t) EXCEPT !.c.kex.key_sent = TRUE]
            ELSE m
        notify(m) ==
            IF m.c.kex.key_confirmed
            THEN ble_send_message(m,
                     snprintf_msg(PAIRING_KEY_MAX_LEN + 16, PartnerPrefix,
                                  m.c.partner_public_key))
            ELSE m
        relay(m) ==
            IF m.c.kex.has_outgoing_url /\ ~m.c.kex.outgoing_url_sent
            THEN [send_relay_url(m, t) EXCEPT !.c.kex.outgoing_url_sent = TRUE]
            ELSE m
        incoming(m) ==
            IF m.c.kex.has_incoming_url
            THEN [ble_send_message(m,
                      snprintf_msg(KEY_EXCHANGE_URL_MAX_LEN + 16, RecvUrlPrefix,
                                   m.c.kex.incoming_url))
                  EXCEPT !.c.kex.has_incoming_url = FALSE]
            ELSE m
    IN  IF ~M.c.kex.active THEN M
        ELSE CHOOSE M4 \in {incoming(M3) : M3 \in
                            {relay(M2) : M2 \in
                                {notify(M1) : M1 \in {key(M)}}}} : TRUE

\* seeded fault: the KEY_EXCHANGE counts as sent only once a datagram was built
tick_kex_retry_unbuilt(M, t) ==
    LET key(m) ==
            IF ~m.c.kex.key_sent
            THEN LET m1 == send_key_exchange(m, t)
                 IN  [m1 EXCEPT !.c.kex.key_sent = (m1.tx # m.tx)]
            ELSE m
        notify(m) ==
            IF m.c.kex.key_confirmed /\ ~m.c.kex.notified_phone
            THEN [ble_send_message(m,
                      snprintf_msg(PAIRING_KEY_MAX_LEN + 16, PartnerPrefix,
                                   m.c.partner_public_key))
                  EXCEPT !.c.kex.notified_phone = TRUE]
            ELSE m
        relay(m) ==
            IF m.c.kex.has_outgoing_url /\ ~m.c.kex.outgoing_url_sent
            THEN [send_relay_url(m, t) EXCEPT !.c.kex.outgoing_url_sent = TRUE]
            ELSE m
        incoming(m) ==
            IF m.c.kex.has_incoming_url
            THEN [ble_send_message(m,
                      snprintf_msg(KEY_EXCHANGE_URL_MAX_LEN + 16, RecvUrlPrefix,
                                   m.c.kex.incoming_url))
                  EXCEPT !.c.kex.has_incoming_url = FALSE]
            ELSE m
    IN  IF ~M.c.kex.active THEN M
        ELSE CHOOSE M4 \in {incoming(M3) : M3 \in
                            {relay(M2) : M2 \in
                                {notify(M1) : M1 \in {key(M)}}}} : TRUE

\* the key-exchange steps of case PAIRED, run when the heartbeat is not lost:
\* four ifs in sequence, each working on the context the one before left
\* (M1, M2, M3 are each computed once)
tick_kex(M, t) ==
    LET key(m) ==
            IF ~m.c.kex.key_sent
            THEN [send_key_exchange(m, t) EXCEPT !.c.kex.key_sent = TRUE]
            ELSE m
        notify(m) ==
            IF m.c.kex.key_confirmed /\ ~m.c.kex.notified_phone
            THEN [ble_send_message(m,
                      snprintf_msg(PAIRING_KEY_MAX_LEN + 16, PartnerPrefix,
                                   m.c.partner_public_key))
                  EXCEPT !.c.kex.notified_phone = TRUE]
            ELSE m
        relay(m) ==
            IF m.c.kex.has_outgoing_url /\ ~m.c.kex.outgoing_url_sent
            THEN [send_relay_url(m, t) EXCEPT !.c.kex.outgoing_url_sent = TRUE]
            ELSE m
        incoming(m) ==
            IF m.c.kex.has_incoming_url
            THEN [ble_send_message(m,
                      snprintf_msg(KEY_EXCHANGE_URL_MAX_LEN + 16, RecvUrlPrefix,
                                   m.c.kex.incoming_url))
                  EXCEPT !.c.kex.has_incoming_url = FALSE]
            ELSE m
    IN  IF ~M.c.kex.active THEN M
        ELSE CHOOSE M4 \in {incoming(M3) : M3 \in
                            {relay(M2) : M2 \in
                                {notify(M1) : M1 \in {key(M)}}}} : TRUE

\* case SEARCHING of pairing_tick
tick_searching(M, t) ==
    IF Elapsed(t, M.c.last_action_time) > PAIRING_REBROADCAST_MS
    THEN [send_hello(M, t) EXCEPT !.c.last_action_time = get_time_ms(t)]
    ELSE M

\* seeded fault: the proposal times out one millisecond early
tick_proposing_inclusive(M, t) ==
    IF Elapsed(t, M.c.last_action_time) >= PAIRING_TIMEOUT_MS
    THEN [M EXCEPT !.c.current_state = SEARCHING, !.c.last_action_time = get_time_ms(t)]
    ELSE M

\* case PROPOSING of pairing_tick
tick_proposing(M, t) ==
    IF Elapsed(t, M.c.last_action_time) > PAIRING_TIMEOUT_MS
    THEN [M EXCEPT !.c.current_state = SEARCHING, !.c.last_action_time = get_time_ms(t)]
    ELSE M

\* seeded fault: a silent partner is never given up
tick_paired_never_lost(M, t) ==
    LET heartbeat(m) ==
            IF Elapsed(t, m.c.last_heartbeat_sent) > PAIRING_HEARTBEAT_MS
            THEN [send_heartbeat(m, t) EXCEPT !.c.last_heartbeat_sent = get_time_ms(t)]
            ELSE m
    IN  CHOOSE M2 \in {tick_kex(M1, t) : M1 \in {heartbeat(m) : m \in {M}}} : TRUE

\* seeded fault: the heartbeat counts as lost one millisecond early
tick_paired_inclusive(M, t) ==
    LET heartbeat(m) ==
            IF Elapsed(t, m.c.last_heartbeat_sent) > PAIRING_HEARTBEAT_MS
            THEN [send_heartbeat(m, t) EXCEPT !.c.last_heartbeat_sent = get_time_ms(t)]
            ELSE m
        rest(M1) ==
            IF Elapsed(t, M1.c.last_heartbeat_recv)
                   >= PAIRING_HEARTBEAT_MS * PAIRING_HEARTBEAT_MISS_MAX
            THEN [M1 EXCEPT !.c = pairing_reset(M1.c, t)]
            ELSE tick_kex(M1, t)
    IN  CHOOSE M2 \in {rest(M1) : M1 \in {heartbeat(m) : m \in {M}}} : TRUE

\* case PAIRED of pairing_tick
tick_paired(M, t) ==
    LET heartbeat(m) ==
            IF Elapsed(t, m.c.last_heartbeat_sent) > PAIRING_HEARTBEAT_MS
            THEN [send_heartbeat(m, t) EXCEPT !.c.last_heartbeat_sent = get_time_ms(t)]
            ELSE m
        rest(M1) ==
            IF Elapsed(t, M1.c.last_heartbeat_recv)
                   > PAIRING_HEARTBEAT_MS * PAIRING_HEARTBEAT_MISS_MAX
            THEN [M1 EXCEPT !.c = pairing_reset(M1.c, t)]
            ELSE tick_kex(M1, t)
    IN  CHOOSE M2 \in {rest(M1) : M1 \in {heartbeat(m) : m \in {M}}} : TRUE

pairing_tick(M, t) ==
    IF ~pairing_is_ready(M.c) THEN M
    ELSE IF M.c.current_state = SEARCHING THEN tick_searching(M, t)
    ELSE IF M.c.current_state = PROPOSING THEN tick_proposing(M, t)
    ELSE IF M.c.current_state = PAIRED THEN tick_paired(M, t)
    ELSE M

---------------------------------------------------------------------------
(* Setters                                                                 *)

pairing_set_pubkey(c, pub_key, t) ==
    IF pub_key = NULL THEN c
    ELSE LET c1 == [c EXCEPT !.my_public_key = strncpy_term(pub_key, PAIRING_KEY_MAX_LEN),
                             !.has_pubkey = TRUE]
         IN  IF pairing_is_ready(c1) THEN pairing_reset(c1, t) ELSE c1

\* data is the caller's buffer (NULL allowed), len the length the caller passes
pairing_set_bitmask(c, data, len, t, malloc_ok) ==
    IF data = NULL \/ len = 0 \/ len > PAIRING_BITMASK_MAX_LEN THEN c
    ELSE IF ~malloc_ok THEN [c EXCEPT !.bitmask = NULL]
    ELSE LET c1 == [c EXCEPT !.bitmask = Take(data, len),
                             !.bitmask_len = len,
                             !.has_bitmask = TRUE]
         IN  IF pairing_is_ready(c1) THEN pairing_reset(c1, t) ELSE c1

pairing_set_similarity_threshold(c, threshold) ==
    [c EXCEPT !.similarity_threshold = IF threshold > 100 THEN 100 ELSE threshold]

\* seeded fault: the URL is queued in every state
pairing_set_relay_url_any_state(c, url) ==
    IF url = NULL THEN c
    ELSE [c EXCEPT !.kex.outgoing_url = strncpy_term(url, KEY_EXCHANGE_URL_MAX_LEN),
                   !.kex.has_outgoing_url = TRUE,
                   !.kex.outgoing_url_sent = FALSE]

pairing_set_relay_url(c, url) ==
    IF url = NULL THEN c
    ELSE IF c.current_state # PAIRED \/ ~c.kex.active THEN c
    ELSE [c EXCEPT !.kex.outgoing_url = strncpy_term(url, KEY_EXCHANGE_URL_MAX_LEN),
                   !.kex.has_outgoing_url = TRUE,
                   !.kex.outgoing_url_sent = FALSE]

---------------------------------------------------------------------------
(* Bounds and input sets                                                   *)

\* three badges; memcmp orders them MacX < MacY < MacZ although their last
\* bytes are in the opposite order
MacX == <<16, 0, 0, 0, 0, 3>>

MacY == <<24, 0, 0, 0, 0, 2>>

MacZ == <<32, 0, 0, 0, 0, 1>>

\* clock readings: boot, and up to MaxJitter ms past the proposal timeout,
\* which is also past the heartbeat-loss limit and both send periods
MaxJitter == 1

Instants == {0} \cup {PAIRING_TIMEOUT_MS + e : e \in 1..MaxJitter}

\* signal strengths: one below the proximity floor, the floor, one above
StrongRssi == PAIRING_MIN_RSSI_PROPOSING + 30

Rssis == {PAIRING_MIN_RSSI_PROPOSING - 1, PAIRING_MIN_RSSI_PROPOSING, StrongRssi}

\* arguments of pairing_set_pubkey: NULL, "A"
PubkeyArgs == {NULL, <<65, 0>>}

\* arguments of pairing_set_bitmask: a valid one, then NULL data, length 0 and
\* a length above the maximum
BitmaskArgs ==
    {[data |-> <<255>>, len |-> 1],
     [data |-> NULL, len |-> 1], [data |-> <<255>>, len |-> 0],
     [data |-> <<255>>, len |-> PAIRING_BITMASK_MAX_LEN + 1]}

\* arguments of pairing_set_similarity_threshold: 0 lets every bitmask through
ThresholdArgs == {0}

\* arguments of pairing_set_relay_url: NULL, "U", and the longest string the
\* outgoing_url field holds
RelayUrlArgs ==
    {NULL, <<85, 0>>, [k \in 1..(KEY_EXCHANGE_URL_MAX_LEN - 1) |-> 75] \o <<0>>}

\* a datagram as a peer's encoder lays it out
MkPacket(magic, type, from, seq, declared_len, mask, trailing) ==
    HeaderBytes([protocol_id |-> magic, msg_type |-> type, sender_mac |-> from,
                 partner_mac |-> ZeroMac, uptime_ms |-> 0, state |-> SEARCHING,
                 last_rssi |-> 0, seq_num |-> seq, bitmask_len |-> declared_len])
    \o mask \o trailing

Pkt(type, from, mask, trailing) ==
    MkPacket(PAIRING_PROTOCOL_ID, type, from, 0, Len(mask), mask, trailing)

\* received bitmasks: none, one that meets the default threshold exactly
\* (four of its eight bits shared with the own bitmask <<255>>: similarity
\* 50), one below it (one of nine bits shared: similarity 11)
RxMasks == {<<>>, <<15, 15>>, <<1, 255>>}

\* received trailing bytes: none, "K" with its NUL
RxTrailing == {<<>>, <<75, 0>>}

\* sequence number of received heartbeats (two bytes of the field non-zero)
RxSeq == 258

\* a message type outside MSG_TYPE
UnknownType == MSG_RELAY_URL + 1

\* the packets of the handshake
HandshakePackets(from) ==
    {Pkt(MSG_HELLO, from, m, <<>>) : m \in RxMasks}
    \cup {Pkt(ty, from, m, s) :
              ty \in {MSG_PROPOSAL, MSG_ACCEPT}, m \in {<<>>, <<255>>}, s \in RxTrailing}
    \cup {Pkt(MSG_REJECT, from, <<>>, <<>>), Pkt(UnknownType, from, <<>>, <<>>)}

\* the packets exchanged while paired
PairedPackets(from) ==
    {MkPacket(PAIRING_PROTOCOL_ID, MSG_HEARTBEAT, from, RxSeq, 0, <<>>, <<>>),
     Pkt(MSG_KEY_EXCHANGE, from, <<255>>, <<65, 0>>),
     Pkt(MSG_RELAY_URL, from, <<255>>, <<75, 0>>),
     Pkt(MSG_RELAY_URL, from, <<255>>, <<>>)}

\* a PROPOSAL with bitmask and key, damaged four ways: cut below the header
\* size, foreign magic byte, declared bitmask length above the maximum,
\* declared bitmask length beyond the end of the datagram
Malformed(from) ==
    {Take(Pkt(MSG_PROPOSAL, from, <<>>, <<>>), HEADER_SIZE - 1),
     MkPacket(PAIRING_PROTOCOL_ID + 1, MSG_PROPOSAL, from, 0, 1, <<255>>, <<75, 0>>),
     MkPacket(PAIRING_PROTOCOL_ID, MSG_PROPOSAL, from, 0, PAIRING_BITMASK_MAX_LEN + 1,
              <<255>>, <<75, 0>>),
     MkPacket(PAIRING_PROTOCOL_ID, MSG_PROPOSAL, from, 0, 4, <<255>>, <<75, 0>>)}

\* what the allocator, the transport and the memory behind the received
\* buffer do during a call, the allocator's results drawn from mallocs
Envs(mallocs) == [malloc_ok : mallocs, send_ok : BOOLEAN, heap : {<<0>>}]

\* the inputs a datagram's handling can depend on; an input the handler does
\* not read for that datagram is held at one value
ReadsRssi(data) ==
    /\ Len(data) > HEADER_SIZE
    /\ hdr_msg_type(data) \in {MSG_HELLO, MSG_PROPOSAL, MSG_ACCEPT}

ReadsSendResult(data) == Len(data) > HEADER_SIZE /\ hdr_msg_type(data) = MSG_HELLO

ReadsMalloc(data) ==
    /\ Len(data) > HEADER_SIZE
    /\ hdr_msg_type(data) \in {MSG_HELLO, MSG_PROPOSAL, MSG_ACCEPT}
    /\ parse_incoming_packet(data).bitmask # NULL

RxInputs(from, packets, mallocs) ==
    {i \in [mac : {from}, data : packets, rssi : Rssis, env : Envs(mallocs)] :
        /\ ReadsRssi(i.data) \/ i.rssi = StrongRssi
        /\ ReadsSendResult(i.data) \/ i.env.send_ok
        /\ ReadsMalloc(i.data) \/ i.env.malloc_ok}

---------------------------------------------------------------------------
(* Actions: one per entry point, on badge b, its inputs drawn from a set   *)

\* the last call: its entry point, its badge, the state it found the badge in
\* and, for a datagram that came off the air, its type byte
NoOp == [name |-> "init", b |-> ZeroMac, was |-> SEARCHING, msg |-> 0]

Call(name, b) == [name |-> name, b |-> b, was |-> ctx[b].current_state, msg |-> 0]

\* a receive of a datagram another badge built
Delivery(b, data) == [Call("recv", b) EXCEPT !.msg = hdr_msg_type(data)]

\* the state after a call on badge b that left machine M
Apply(b, M, o) ==
    /\ ctx' = [ctx EXCEPT ![b] = M.c]
    /\ peers' = [peers EXCEPT ![b] = M.peers]
    /\ tx' = M.tx
    /\ ble' = M.ble
    /\ op' = o

MachineOf(b) == Machine(ctx[b], peers[b])

AdvanceTo(instants) ==
    /\ \E t \in instants : t > now /\ now' = t
    /\ UNCHANGED <<ctx, peers, op, tx, ble, air, ret, rtos>>

RecvOf(b, inputs) ==
    /\ \E i \in inputs :
          Apply(b, pairing_handle_recv(MachineOf(b), i.mac, i.data, i.rssi, now, i.env),
                Call("recv", b))
    /\ UNCHANGED <<now, air, ret, rtos>>

Tick(b) ==
    /\ Apply(b, pairing_tick(MachineOf(b), now), Call("tick", b))
    /\ UNCHANGED <<now, air, ret, rtos>>

Reset(b) ==
    /\ Apply(b, [MachineOf(b) EXCEPT !.c = pairing_reset(ctx[b], now)], Call("reset", b))
    /\ UNCHANGED <<now, air, ret, rtos>>

SetPubkey(b) ==
    /\ \E k \in PubkeyArgs :
          Apply(b, [MachineOf(b) EXCEPT !.c = pairing_set_pubkey(ctx[b], k, now)],
                Call("set_pubkey", b))
    /\ UNCHANGED <<now, air, ret, rtos>>

SetBitmaskOf(b, results) ==
    /\ \E a \in BitmaskArgs, malloc_ok \in results :
          Apply(b, [MachineOf(b) EXCEPT
                        !.c = pairing_set_bitmask(ctx[b], a.data, a.len, now, malloc_ok)],
                Call("set_bitmask", b))
    /\ UNCHANGED <<now, air, ret, rtos>>

SetThreshold(b) ==
    /\ \E th \in ThresholdArgs :
          Apply(b, [MachineOf(b) EXCEPT !.c = pairing_set_similarity_threshold(ctx[b], th)],
                Call("set_similarity_threshold", b))
    /\ UNCHANGED <<now, air, ret, rtos>>

SetRelayUrl(b) ==
    /\ \E u \in RelayUrlArgs :
          Apply(b, [MachineOf(b) EXCEPT !.c = pairing_set_relay_url(ctx[b], u)],
                Call("set_relay_url", b))
    /\ UNCHANGED <<now, air, ret, rtos>>

\* heap addresses, enough for a full queue and the two events outside it
MaxBufs == 8

Addrs == 1..MaxBufs

\* a block that malloc has not handed out yet, and one that free was given
FreshBlock == [live |-> FALSE, fresh |-> TRUE, bytes |-> <<>>]

FreeBlock == [live |-> FALSE, fresh |-> FALSE, bytes |-> <<>>]

\* an espnow_event_t that holds nothing yet; address 0 is the null pointer
NoEvent == [id |-> 0, mac_addr |-> ZeroMac, data |-> 0, data_len |-> 0, rssi |-> 0]

\* the Wi-Fi task between callbacks
Idle == [pc |-> "idle", evt |-> NoEvent]

\* the state when the tasks start, every badge with context c[b]
InitWith(c) ==
    /\ now = 0
    /\ ctx = c
    /\ peers = [b \in DOMAIN c |-> {espnow_broadcast_mac}]
    /\ op = NoOp
    /\ tx = <<>>
    /\ ble = <<>>
    /\ air = {}
    /\ ret = NULL
    /\ queue = <<>>
    /\ mem = [a \in Addrs |-> FreshBlock]
    /\ cb = Idle
    /\ task = [pc |-> "receive", evt |-> NoEvent]
    /\ fault = {}

InitOf(badges) == InitWith([b \in badges |-> pairing_init(b, 0)])

---------------------------------------------------------------------------
(* Spec: one badge, Me, pairing under every handshake input                *)

Me == MacY

Senders == {MacX, MacZ}

PairPackets(from) == HandshakePackets(from) \cup Malformed(from)

\* the receive inputs explored: the allocator fails in pairing_set_bitmask only
PairInputs == UNION {RxInputs(from, PairPackets(from), {TRUE}) : from \in Senders}

\* the receive inputs the properties range over: every packet type, and the
\* allocator failing too
AnyPackets(from) == PairPackets(from) \cup PairedPackets(from)

AnyInputs == UNION {RxInputs(from, AnyPackets(from), BOOLEAN) : from \in Senders}

Init == InitOf({Me})

Advance == AdvanceTo(Instants)

Recv == RecvOf(Me, PairInputs)

SetBitmask == SetBitmaskOf(Me, BOOLEAN)

Next ==
    \/ Advance
    \/ Recv
    \/ Tick(Me)
    \/ Reset(Me)
    \/ SetPubkey(Me)
    \/ SetBitmask
    \/ SetThreshold(Me)

Spec == Init /\ [][Next]_vars

---------------------------------------------------------------------------
(* SpecKex: the same badge, one way into each state and every input of     *)
(* the paired phase                                                        *)

KexPackets(from) ==
    PairedPackets(from)
    \cup {Pkt(MSG_HELLO, from, <<255>>, <<>>), Pkt(MSG_REJECT, from, <<>>, <<>>)}
    \cup {Pkt(ty, from, <<255>>, <<75, 0>>) : ty \in {MSG_PROPOSAL, MSG_ACCEPT}}

KexInputs ==
    {i \in UNION {RxInputs(from, KexPackets(from), {TRUE}) : from \in Senders} :
        i.rssi = StrongRssi /\ i.env.send_ok}

KexRecv == RecvOf(Me, KexInputs)

NextKex ==
    \/ Advance
    \/ KexRecv
    \/ Tick(Me)
    \/ Reset(Me)
    \/ SetPubkey(Me)
    \/ SetBitmask
    \/ SetRelayUrl(Me)

SpecKex == Init /\ [][NextKex]_vars

---------------------------------------------------------------------------
(* SpecNet: two badges, MacX and MacY, that hear only each other. What a   *)
(* badge sends is in the air until it is delivered or lost.                *)

Badges == {MacX, MacY}

Other(b) == IF b = MacX THEN MacY ELSE MacX

\* the key a badge's phone gives it: "X" for MacX, "Y" for MacY
KeyOf(b) == IF b = MacX THEN <<88, 0>> ELSE <<89, 0>>

\* both badges advertise the same interests
NetBitmask == <<255>>

\* datagrams in the air at once
MaxInFlight == 3

Range(seq) == {seq[k] : k \in 1..Len(seq)}

\* what badge b put on the air during a call that left machine M
OnAir(b, M) == {[src |-> b, dst |-> e.dst, data |-> e.data] : e \in Range(M.tx)}

Hears(b, m) == b # m.src /\ m.dst \in {b, espnow_broadcast_mac}

NetInit == InitOf(Badges)

NetSetPubkey(b) ==
    /\ ~ctx[b].has_pubkey
    /\ Apply(b, [MachineOf(b) EXCEPT !.c = pairing_set_pubkey(ctx[b], KeyOf(b), now)],
             Call("set_pubkey", b))
    /\ UNCHANGED <<now, air, ret, rtos>>

NetSetBitmask(b) ==
    /\ ~ctx[b].has_bitmask
    /\ Apply(b, [MachineOf(b) EXCEPT
                     !.c = pairing_set_bitmask(ctx[b], NetBitmask, Len(NetBitmask), now, TRUE)],
             Call("set_bitmask", b))
    /\ UNCHANGED <<now, air, ret, rtos>>

\* a tick of badge b, the air holding at most cap datagrams
NetTickAt(b, cap) ==
    \E M \in {pairing_tick(MachineOf(b), now)} :
        /\ Cardinality(air \cup OnAir(b, M)) <= cap
        /\ Apply(b, M, Call("tick", b))
        /\ air' = air \cup OnAir(b, M)
        /\ UNCHANGED <<now, ret, rtos>>

NetTick(b) == NetTickAt(b, MaxInFlight)

\* badge b's receive task handles datagram m; a PROPOSAL the transport
\* refuses (send_ok false) never reaches the air
DeliverAt(b, rssis, sends, cap) ==
    \E m \in air, rssi \in rssis, send_ok \in sends :
        LET env == [malloc_ok |-> TRUE, send_ok |-> send_ok, heap |-> <<0>>]
            M == pairing_handle_recv(MachineOf(b), m.src, m.data, rssi, now, env)
            rest == air \ {m}
            sent == IF send_ok THEN OnAir(b, M) ELSE {}
        IN  /\ Hears(b, m)
            /\ send_ok \/ (ReadsSendResult(m.data) /\ M.tx # <<>>)
            /\ Cardinality(rest \cup sent) <= cap
            /\ Apply(b, M, Delivery(b, m.data))
            /\ air' = rest \cup sent
            /\ UNCHANGED <<now, ret, rtos>>

Deliver(b) == DeliverAt(b, Rssis, BOOLEAN, MaxInFlight)

Lose ==
    /\ \E m \in air : air' = air \ {m}
    /\ UNCHANGED <<ctx, peers, now, op, tx, ble, ret, rtos>>

NextNet ==
    \/ Advance
    \/ Lose
    \/ \E b \in Badges : NetSetPubkey(b)
    \/ \E b \in Badges : NetSetBitmask(b)
    \/ \E b \in Badges : NetTick(b)
    \/ \E b \in Badges : Deliver(b)

SpecNet == NetInit /\ [][NextNet]_vars

---------------------------------------------------------------------------
(* SpecNetLive: the two badges under the scheduling the firmware gives     *)
(* them. espnow_task calls pairing_tick on every turn of its loop, the     *)
(* tick counter keeps counting and no datagram stays in the air for ever.  *)

\* the clock stops once per epoch, each epoch longer than every timeout
MaxEpochs == 2

LiveInstants == {k * (PAIRING_TIMEOUT_MS + 1) : k \in 0..MaxEpochs}

LiveHorizon == MaxEpochs * (PAIRING_TIMEOUT_MS + 1)

LiveAdvance == AdvanceTo(LiveInstants)

\* datagrams in the air at once
LiveInFlight == 2

\* deliveries at full signal strength that the transport accepts; a datagram
\* that does not arrive is lost
LiveDeliver(b) == DeliverAt(b, {StrongRssi}, {TRUE}, LiveInFlight)

LiveTick(b) == NetTickAt(b, LiveInFlight)

NextNetLive ==
    \/ LiveAdvance
    \/ Lose
    \/ \E b \in Badges : NetSetPubkey(b)
    \/ \E b \in Badges : NetSetBitmask(b)
    \/ \E b \in Badges : LiveTick(b)
    \/ \E b \in Badges : LiveDeliver(b)

SpecNetLive ==
    /\ NetInit /\ [][NextNetLive]_vars
    /\ WF_vars(LiveAdvance)
    /\ WF_vars(Lose)
    /\ \A b \in Badges : WF_vars(LiveTick(b))

---------------------------------------------------------------------------
(* SpecClock: the same badge and one peer, MacX, on a clock that stops at  *)
(* each timer's period and up to MaxJitter ms after it                     *)

ClockInstants ==
    (0..MaxJitter)
    \cup {p + e : p \in {PAIRING_REBROADCAST_MS, PAIRING_HEARTBEAT_MS, PAIRING_TIMEOUT_MS},
                  e \in 0..MaxJitter}

\* one datagram for each way through the handshake, and the heartbeat
ClockPackets(from) ==
    {Pkt(MSG_HELLO, from, <<255>>, <<>>),
     Pkt(MSG_PROPOSAL, from, <<255>>, <<75, 0>>),
     Pkt(MSG_ACCEPT, from, <<255>>, <<75, 0>>),
     Pkt(MSG_REJECT, from, <<>>, <<>>),
     MkPacket(PAIRING_PROTOCOL_ID, MSG_HEARTBEAT, from, RxSeq, 0, <<>>, <<>>)}

ClockInputs ==
    {i \in RxInputs(MacX, ClockPackets(MacX), {TRUE}) : i.rssi = StrongRssi /\ i.env.send_ok}

ClockAdvance == AdvanceTo(ClockInstants)

ClockRecv == RecvOf(Me, ClockInputs)

NextClock ==
    \/ ClockAdvance
    \/ ClockRecv
    \/ Tick(Me)
    \/ NetSetPubkey(Me)
    \/ NetSetBitmask(Me)

SpecClock == Init /\ [][NextClock]_vars

---------------------------------------------------------------------------
(* SpecRx: the same badge receiving sound and damaged datagrams from MacX, *)
(* the datagram of the last receive kept in ret                             *)

MsgTypes == MSG_HELLO..MSG_RELAY_URL

\* a datagram of type ty with bitmask and key, damaged: cut one byte short of
\* the header, foreign protocol id, a bitmask one byte longer than the
\* maximum (all of it present), a declared bitmask length one byte beyond
\* the end of the datagram
Damaged(ty, from) ==
    {Take(Pkt(ty, from, <<255>>, <<75, 0>>), HEADER_SIZE - 1),
     MkPacket(PAIRING_PROTOCOL_ID + 1, ty, from, 0, 1, <<255>>, <<75, 0>>),
     MkPacket(PAIRING_PROTOCOL_ID, ty, from, 0, PAIRING_BITMASK_MAX_LEN + 1,
              [k \in 1..(PAIRING_BITMASK_MAX_LEN + 1) |-> 255], <<75, 0>>),
     MkPacket(PAIRING_PROTOCOL_ID, ty, from, 0, 4, <<255, 255, 255>>, <<>>)}

DamagedPackets(from) == UNION {Damaged(ty, from) : ty \in MsgTypes \cup {UnknownType}}

\* a damaged datagram from either sender, at every signal strength, whatever
\* the allocator and the transport would do
DamagedInputs ==
    [mac : Senders, data : DamagedPackets(MacX), rssi : Rssis, env : Envs(BOOLEAN)]

RxSound == {i \in ClockInputs : hdr_msg_type(i.data) # MSG_REJECT}

RxDamaged == {i \in DamagedInputs : i.mac = MacX /\ i.rssi = StrongRssi /\ i.env.malloc_ok /\ i.env.send_ok}

RxRecv ==
    /\ \E i \in RxSound \cup RxDamaged :
          /\ Apply(Me, pairing_handle_recv(MachineOf(Me), i.mac, i.data, i.rssi, now, i.env),
                   Call("recv", Me))
          /\ ret' = i.data
    /\ UNCHANGED <<now, air, rtos>>

NextRx ==
    \/ RxRecv
    \/ NetSetPubkey(Me)
    \/ NetSetBitmask(Me)

SpecRx == Init /\ [][NextRx]_vars

---------------------------------------------------------------------------
(* SpecCodec: build_packet_with_bitmask and parse_incoming_packet called   *)
(* directly on the contexts the setters leave; ret holds the arguments and *)
(* the result of the last such call, NULL after any other step             *)

ESP_NOW_MAX_DATA_LEN == 250

ByteToInt8(b) == IF b > 127 THEN b - 256 ELSE b

\* the header fields as read through the broadcast_header_t cast
ReadHeader(data) ==
    [protocol_id |-> hdr_protocol_id(data), msg_type |-> hdr_msg_type(data),
     sender_mac |-> SubSeq(data, 3, 8), partner_mac |-> SubSeq(data, 9, 14),
     uptime_ms |-> RdLE32(data, 14), state |-> data[19],
     last_rssi |-> ByteToInt8(data[20]), seq_num |-> hdr_seq_num(data),
     bitmask_len |-> hdr_bitmask_len(data)]

\* the string of n characters 'K'
StrOf(n) == [k \in 1..n |-> 75] \o <<0>>

\* own bitmasks: one byte, and the longest pairing_set_bitmask accepts
CodecBitmasks == {<<255>>, [k \in 1..PAIRING_BITMASK_MAX_LEN |-> k % 251]}

\* trailing strings: none, "", "K", and the longest key a context holds
CodecStrings == {NULL, EmptyStr, StrOf(1), StrOf(PAIRING_KEY_MAX_LEN - 1)}

\* the buffers the four callers of build_packet_with_bitmask pass
CodecBufSizes == {HelloBufSize, PairBufSize, KeyBufSize, RelayBufSize}

\* the clock passes the rebroadcast period
CodecAdvance ==
    /\ \E t \in {PAIRING_REBROADCAST_MS + 1} : t > now /\ now' = t
    /\ ret' = NULL
    /\ UNCHANGED <<ctx, peers, op, tx, ble, air, rtos>>

CodecSetPubkey ==
    /\ Apply(Me, [MachineOf(Me) EXCEPT !.c = pairing_set_pubkey(ctx[Me], KeyOf(Me), now)],
             Call("set_pubkey", Me))
    /\ ret' = NULL
    /\ UNCHANGED <<now, air, rtos>>

CodecSetBitmask ==
    /\ \E data \in CodecBitmasks, malloc_ok \in BOOLEAN :
          Apply(Me, [MachineOf(Me) EXCEPT
                        !.c = pairing_set_bitmask(ctx[Me], data, Len(data), now, malloc_ok)],
                Call("set_bitmask", Me))
    /\ ret' = NULL
    /\ UNCHANGED <<now, air, rtos>>

CodecTick ==
    /\ Apply(Me, pairing_tick(MachineOf(Me), now), Call("tick", Me))
    /\ ret' = NULL
    /\ UNCHANGED <<now, air, rtos>>

\* build_packet_with_bitmask(ctx, buf, buf_size, msg_type, pubkey)
Encode ==
    /\ \E ty \in MsgTypes, size \in CodecBufSizes, str \in CodecStrings :
          ret' = [call |-> "build", msg_type |-> ty, buf_size |-> size, pubkey |-> str,
                  buf |-> build_packet_with_bitmask(ctx[Me], size, ty, str, now),
                  hdr |-> NULL, P |-> NULL]
    /\ UNCHANGED <<ctx, peers, now, op, tx, ble, air, rtos>>

\* parse_incoming_packet on the buffer the encoder filled
Decode ==
    /\ ret # NULL
    /\ ret.call = "build"
    /\ Len(ret.buf) > 0
    /\ ret' = [ret EXCEPT !.call = "parse",
                          !.hdr = ReadHeader(ret.buf),
                          !.P = parse_incoming_packet(ret.buf)]
    /\ UNCHANGED <<ctx, peers, now, op, tx, ble, air, rtos>>

NextCodec ==
    \/ CodecAdvance
    \/ CodecSetPubkey
    \/ CodecSetBitmask
    \/ CodecTick
    \/ Encode
    \/ Decode

SpecCodec == Init /\ [][NextCodec]_vars

---------------------------------------------------------------------------
(* SpecSim: calculate_bitmask_similarity called directly on two bitmasks,  *)
(* in both argument orders, the arguments and both results kept in ret     *)

MaxMaskLen == 2

\* bytes with no, low, high and all bits set
SimBytes == {0, 15, 240, 255}

\* a bitmask argument: a pointer (NULL allowed) and the length passed with it
SimArgs ==
    {[data |-> NULL, len |-> 1]}
    \cup UNION {{[data |-> m, len |-> n] : n \in 0..Len(m)} :
                   m \in UNION {[1..k -> SimBytes] : k \in 1..MaxMaskLen}}

\* the firmware runs one comparison at a time
Similarity ==
    /\ ret = NULL
    /\ \E a \in SimArgs, b \in SimArgs :
          ret' = [call |-> "similarity", a |-> a, b |-> b,
                  ab |-> calculate_bitmask_similarity(a.data, a.len, b.data, b.len),
                  ba |-> calculate_bitmask_similarity(b.data, b.len, a.data, a.len)]
    /\ UNCHANGED <<ctx, peers, now, op, tx, ble, air, rtos>>

\* the caller is done with the results
SimReturn ==
    /\ ret # NULL
    /\ ret' = NULL
    /\ UNCHANGED <<ctx, peers, now, op, tx, ble, air, rtos>>

NextSim ==
    \/ Similarity
    \/ SimReturn

SpecSim == Init /\ [][NextSim]_vars

---------------------------------------------------------------------------
(* Properties of the single badge                                          *)

Ctx == ctx[Me]

\* the machine a receive of input i leaves
AfterRecv(i) == pairing_handle_recv(MachineOf(Me), i.mac, i.data, i.rssi, now, i.env)

AfterTick == pairing_tick(MachineOf(Me), now)

\* the call changed no context field, sent no datagram, notified nothing and
\* registered no peer
IsNoOp(M) == M = MachineOf(Me)

\* C1: while the public key or the bitmask is not yet set, every
\* pairing_handle_recv and every pairing_tick is a no-op: no context field
\* changes, no datagram is sent and no notification is emitted.
C1_NotReadyNoOp ==
    ~(Ctx.has_pubkey /\ Ctx.has_bitmask) =>
        /\ \A i \in AnyInputs : IsNoOp(AfterRecv(i))
        /\ IsNoOp(AfterTick)

\* a tick past the rebroadcast period on a badge that has its bitmask and no
\* public key yet
C1_Witness ==
    /\ op.name = "tick"
    /\ Ctx.has_bitmask /\ ~Ctx.has_pubkey
    /\ now - Ctx.last_action_time > PAIRING_REBROADCAST_MS
    /\ tx = <<>>

\* partner data as pairing_reset leaves it
NoPartnerData(c) ==
    /\ strlen(c.partner_public_key) = 0
    /\ c.partner_bitmask = NULL
    /\ c.partner_bitmask_len = 0

\* C2: in every reachable state, current_state = SEARCHING implies that
\* partner_public_key is empty and partner_bitmask is NULL with length 0.
C2_SearchingHasNoPartnerData ==
    Ctx.current_state = SEARCHING => NoPartnerData(Ctx)

\* the proposal timeout has fired and the bitmask of the abandoned partner is
\* still held
C2_StaleBitmask ==
    /\ op.name = "tick" /\ op.was = PROPOSING
    /\ Ctx.current_state = SEARCHING
    /\ Ctx.partner_bitmask # NULL

\* the state the specification gives after a timeout
TornDown(c) ==
    /\ c.current_state = SEARCHING
    /\ c.partner_mac = ZeroMac
    /\ NoPartnerData(c)
    /\ c.kex = ZeroKex

ProposalTimedOut ==
    /\ Ctx.current_state = PROPOSING
    /\ Elapsed(now, Ctx.last_action_time) > PAIRING_TIMEOUT_MS

HeartbeatLost ==
    /\ Ctx.current_state = PAIRED
    /\ Elapsed(now, Ctx.last_heartbeat_recv) > PAIRING_HEARTBEAT_MS * PAIRING_HEARTBEAT_MISS_MAX

\* C3: a tick that fires the proposal timeout or the heartbeat-loss timeout
\* leaves the badge SEARCHING with partner_mac zeroed, partner key and
\* partner bitmask cleared and the key-exchange subcontext cleared.
C3_TimeoutTearsDown ==
    pairing_is_ready(Ctx) /\ (ProposalTimedOut \/ HeartbeatLost) => TornDown(AfterTick.c)

\* the proposal timeout has fired and the badge still tracks the partner
C3_StalePartner ==
    /\ op.name = "tick" /\ op.was = PROPOSING
    /\ Ctx.current_state = SEARCHING
    /\ Ctx.partner_mac # ZeroMac

\* C4: from any state, with any key-exchange progress, pairing_reset yields
\* SEARCHING with partner_mac zeroed, partner key and partner bitmask empty
\* and the key-exchange subcontext cleared, and a second reset changes
\* nothing more.
C4_ResetTearsDown ==
    LET once == pairing_reset(Ctx, now)
    IN  /\ TornDown(once)
        /\ pairing_reset(once, now) = once

\* a reset that found the badge PAIRED
C4_Witness ==
    /\ op.name = "reset" /\ op.was = PAIRED
    /\ TornDown(Ctx)

---------------------------------------------------------------------------
(* Properties of one receive                                               *)

\* a datagram the handler parses: long enough, right magic, bitmask in range
Parses(data) ==
    /\ Len(data) >= HEADER_SIZE
    /\ hdr_protocol_id(data) = PAIRING_PROTOCOL_ID
    /\ parse_incoming_packet(data).ok

\* the inputs whose datagram parses and has type ty
Msgs(ty) == {i \in AnyInputs : Parses(i.data) /\ hdr_msg_type(i.data) = ty}

Hellos == Msgs(MSG_HELLO)

Proposals == Msgs(MSG_PROPOSAL)

Accepts == Msgs(MSG_ACCEPT)

HasKey(i) == parse_incoming_packet(i.data).pubkey # NULL

HasBitmask(i) == parse_incoming_packet(i.data).bitmask # NULL

\* the call sent exactly one datagram, of type ty, to dst
SentOnly(M, ty, dst) ==
    /\ Len(M.tx) = 1
    /\ M.tx[1].dst = dst
    /\ hdr_msg_type(M.tx[1].data) = ty

FromPartner(i) == i.mac = Ctx.partner_mac

ThirdPartyProposal(i) ==
    /\ pairing_is_ready(Ctx) /\ Ctx.current_state = PROPOSING
    /\ ~FromPartner(i)

\* the tie-break rule as the specification words it
Closer(i) ==
    \/ i.rssi > Ctx.proposal_rssi
    \/ /\ i.rssi = Ctx.proposal_rssi
       /\ memcmp(i.mac, Ctx.partner_mac, ESP_NOW_ETH_ALEN) > 0

\* the sender replaced the partner, got an ACCEPT, and the badge is PAIRED
TookOver(M, i) ==
    /\ M.c.current_state = PAIRED
    /\ M.c.partner_mac = i.mac
    /\ SentOnly(M, MSG_ACCEPT, i.mac)

\* the sender got a REJECT; state, partner and proposal_rssi are as before
Refused(M, i) ==
    /\ SentOnly(M, MSG_REJECT, i.mac)
    /\ M.c.current_state = Ctx.current_state
    /\ M.c.partner_mac = Ctx.partner_mac
    /\ M.c.proposal_rssi = Ctx.proposal_rssi

\* C7 as claimed: in PROPOSING a PROPOSAL from another address than the
\* partner's is accepted exactly when it is closer, and refused otherwise.
C7_CloserAlone ==
    \A i \in Proposals :
        ThirdPartyProposal(i) =>
            LET M == AfterRecv(i)
            IN  IF Closer(i) THEN TookOver(M, i) ELSE Refused(M, i)

\* C7 amended: in PROPOSING a PROPOSAL from another address than the
\* partner's is accepted exactly when its RSSI is at or above the proximity
\* floor, it carries a key and a bitmask, and it is closer; in every other
\* case a REJECT is sent and state, partner and proposal_rssi are unchanged.
C7_CloserAboveFloorWithPayload ==
    \A i \in Proposals :
        ThirdPartyProposal(i) =>
            LET M == AfterRecv(i)
            IN  IF /\ i.rssi >= PAIRING_MIN_RSSI_PROPOSING
                   /\ HasKey(i) /\ HasBitmask(i)
                   /\ Closer(i)
                THEN TookOver(M, i)
                ELSE Refused(M, i)

\* a third party's PROPOSAL has just taken the badge from PROPOSING to PAIRED
C7_Witness ==
    /\ op.name = "recv" /\ op.was = PROPOSING
    /\ Ctx.current_state = PAIRED
    /\ Len(tx) = 1 /\ hdr_msg_type(tx[1].data) = MSG_ACCEPT
    /\ tx[1].dst = Ctx.partner_mac

WeakOrKeylessAccept(i) ==
    /\ pairing_is_ready(Ctx) /\ Ctx.current_state = PROPOSING
    /\ FromPartner(i)
    /\ (i.rssi < RSSI_ZONE_MEDIUM \/ ~HasKey(i))

\* C8: in PROPOSING an ACCEPT from the tracked partner with RSSI below the
\* proximity floor, or with no key, leaves the whole context unchanged (the
\* state stays PROPOSING) and nothing is sent.
C8_WeakOrKeylessAcceptIgnored ==
    \A i \in Accepts : WeakOrKeylessAccept(i) => IsNoOp(AfterRecv(i))

\* a receive found the badge PROPOSING and left it so with nothing sent, in
\* a state where the partner's ACCEPT, with a key, is one dBm below the floor
C8_Witness ==
    /\ op.name = "recv" /\ op.was = PROPOSING
    /\ Ctx.current_state = PROPOSING /\ tx = <<>>
    /\ \E i \in Accepts :
          /\ WeakOrKeylessAccept(i) /\ HasKey(i)
          /\ i.rssi = RSSI_ZONE_MEDIUM - 1

\* the Dice overlap of the specification: 200 * |a AND b| / (|a| + |b|),
\* rounded down, 0 when either bitmask is missing or no bit is set
Overlap(a, b) ==
    LET n == Min(Len(a), Len(b))
        total == SumPop(a, 1, Len(a)) + SumPop(b, 1, Len(b))
    IN  IF Len(a) = 0 \/ Len(b) = 0 \/ total = 0 THEN 0
        ELSE (200 * SumAnd(a, b, 1, n)) \div total

Searching == pairing_is_ready(Ctx) /\ Ctx.current_state = SEARCHING

\* the HELLO carries a non-empty bitmask similar enough to the own one
Similar(i) ==
    /\ HasBitmask(i)
    /\ Overlap(Ctx.bitmask, parse_incoming_packet(i.data).bitmask) >= Ctx.similarity_threshold

\* what follows the header of a datagram that advertises bitmask and key:
\* the bitmask, then the key string. Once a failed allocation in
\* pairing_set_bitmask has lost the buffer (bitmask NULL, bitmask_len kept)
\* the key string comes first and bitmask_len zero bytes follow it, so the
\* receiver reads key bytes as the bitmask.
Advertised(c) ==
    IF c.bitmask = NULL
    THEN c.my_public_key \o Zeros(c.bitmask_len)
    ELSE c.bitmask \o c.my_public_key

\* the sender is tracked as partner, its RSSI recorded, the peer registered
\* and one PROPOSAL announcing bitmask_len bytes of bitmask sent to it
ProposalSent(M, i) ==
    /\ M.c.partner_mac = i.mac
    /\ M.c.proposal_rssi = i.rssi
    /\ i.mac \in M.peers
    /\ SentOnly(M, MSG_PROPOSAL, i.mac)
    /\ hdr_bitmask_len(M.tx[1].data) = Ctx.bitmask_len
    /\ SubSeq(M.tx[1].data, HEADER_SIZE + 1, Len(M.tx[1].data)) = Advertised(Ctx)

BitmaskStored(M, i) ==
    /\ M.c.partner_bitmask = parse_incoming_packet(i.data).bitmask
    /\ M.c.partner_bitmask_len = Len(M.c.partner_bitmask)

Paired == pairing_is_ready(Ctx) /\ Ctx.current_state = PAIRED

StaysPaired(M) ==
    /\ M.c.current_state = PAIRED
    /\ M.c.partner_mac = Ctx.partner_mac

\* C10 as claimed: in PAIRED a PROPOSAL from any sender, the partner
\* included, is answered with a REJECT to that sender and leaves the badge
\* PAIRED with the same partner.
C10_AnyProposalRejected ==
    \A i \in Proposals :
        Paired =>
            LET M == AfterRecv(i)
            IN  SentOnly(M, MSG_REJECT, i.mac) /\ StaysPaired(M)

\* C10 amended: in PAIRED a PROPOSAL from a sender other than the partner
\* is answered with a REJECT to that sender, a PROPOSAL from the partner is
\* ignored with nothing sent, and either way the context is unchanged.
C10_OthersProposalRejected ==
    \A i \in Proposals :
        Paired =>
            LET M == AfterRecv(i)
            IN  /\ IF FromPartner(i) THEN M.tx = <<>> ELSE SentOnly(M, MSG_REJECT, i.mac)
                /\ StaysPaired(M)
                /\ M.c = Ctx

\* a receive found the badge PAIRED and answered another sender than the
\* partner with a REJECT
C10_Witness ==
    /\ op.name = "recv" /\ op.was = PAIRED
    /\ Ctx.current_state = PAIRED
    /\ Len(tx) = 1 /\ hdr_msg_type(tx[1].data) = MSG_REJECT
    /\ tx[1].dst # Ctx.partner_mac

---------------------------------------------------------------------------
(* Properties of the two-badge network                                     *)

\* the machine badge b's handler leaves for datagram m heard at rssi, the
\* allocator and the transport succeeding
NetAfterRecv(b, m, rssi) ==
    pairing_handle_recv(MachineOf(b), m.src, m.data, rssi, now,
                        [malloc_ok |-> TRUE, send_ok |-> TRUE, heap |-> <<0>>])

\* datagram m, of type ty, is on its way from badge a to badge b
InFlight(m, ty, a, b) ==
    /\ m \in air
    /\ m.src = a /\ m.dst = b
    /\ hdr_msg_type(m.data) = ty

ProposingTo(a, b) ==
    /\ pairing_is_ready(ctx[a])
    /\ ctx[a].current_state = PROPOSING
    /\ ctx[a].partner_mac = b

PairedWith(c, b) == c.current_state = PAIRED /\ c.partner_mac = b

CrossedProposals ==
    /\ ProposingTo(MacX, MacY) /\ ProposingTo(MacY, MacX)
    /\ ctx[MacX].proposal_rssi = ctx[MacY].proposal_rssi

\* C6: when MacX < MacY are PROPOSING toward each other at equal RSSI and
\* each receives the other's PROPOSAL at that RSSI, the crossing proposals
\* resolve: at least one badge takes the other's proposal and is PAIRED
\* with it.
C6_CrossedProposalsResolve ==
    \A mx \in air, my \in air :
        /\ CrossedProposals
        /\ InFlight(my, MSG_PROPOSAL, MacY, MacX)
        /\ InFlight(mx, MSG_PROPOSAL, MacX, MacY)
        => \/ PairedWith(NetAfterRecv(MacX, my, ctx[MacX].proposal_rssi).c, MacY)
           \/ PairedWith(NetAfterRecv(MacY, mx, ctx[MacY].proposal_rssi).c, MacX)

\* MacX has just handled MacY's PROPOSAL, MacY has handled or lost MacX's,
\* and both badges are still PROPOSING toward each other with nothing sent
C6_StillCrossed ==
    /\ CrossedProposals
    /\ op = [name |-> "recv", b |-> MacX, was |-> PROPOSING, msg |-> MSG_PROPOSAL]
    /\ tx = <<>>
    /\ \A m \in air : hdr_msg_type(m.data) # MSG_PROPOSAL
    /\ ctx[MacX].proposal_rssi >= RSSI_ZONE_MEDIUM

---------------------------------------------------------------------------
(* Properties of the timers                                                *)

\* milliseconds since the last HEARTBEAT was received, or since the badge
\* entered PAIRED when none was
SinceHeartbeat == Elapsed(now, Ctx.last_heartbeat_recv)

HeartbeatLimit == PAIRING_HEARTBEAT_MS * PAIRING_HEARTBEAT_MISS_MAX

\* C11 as claimed: in PAIRED a tick at which the time since the last received
\* HEARTBEAT is at least 5000 ms resets the badge to SEARCHING.
C11_HeartbeatLossAtLimit ==
    Ctx.current_state = PAIRED /\ SinceHeartbeat >= HeartbeatLimit =>
        AfterTick.c.current_state = SEARCHING

\* C11 amended: in PAIRED a tick at which the time since the last received
\* HEARTBEAT is more than 5000 ms resets the badge to SEARCHING with all
\* partner state discarded; a tick at 5000 ms or less leaves it PAIRED with
\* the same partner.
C11_HeartbeatLossPastLimit ==
    Ctx.current_state = PAIRED =>
        IF SinceHeartbeat > HeartbeatLimit
        THEN TornDown(AfterTick.c)
        ELSE StaysPaired(AfterTick)

\* a tick has just reset a paired badge whose partner had been silent for
\* one millisecond more than the limit
C11_Witness ==
    /\ op.name = "tick" /\ op.was = PAIRED
    /\ Ctx.current_state = SEARCHING
    /\ now = HeartbeatLimit + 1

\* milliseconds since the proposal was issued
SinceProposal == Elapsed(now, Ctx.last_action_time)

\* C12 as claimed: in PROPOSING a tick returns the badge to SEARCHING when
\* the time since the proposal is at least the proposal timeout, and no tick
\* before that does.
C12_ProposalTimeoutAtLimit ==
    Ctx.current_state = PROPOSING =>
        (AfterTick.c.current_state = SEARCHING <=> SinceProposal >= PAIRING_TIMEOUT_MS)

\* C12 amended: in PROPOSING a tick returns the badge to SEARCHING when the
\* time since the proposal is more than the proposal timeout; a tick at the
\* timeout or before it changes nothing.
C12_ProposalTimeoutPastLimit ==
    Ctx.current_state = PROPOSING =>
        IF SinceProposal > PAIRING_TIMEOUT_MS
        THEN AfterTick.c.current_state = SEARCHING
        ELSE IsNoOp(AfterTick)

\* a tick one millisecond past the timeout has just abandoned a proposal
C12_Witness ==
    /\ op.name = "tick" /\ op.was = PROPOSING
    /\ Ctx.current_state = SEARCHING
    /\ now = PAIRING_TIMEOUT_MS + 1

---------------------------------------------------------------------------
(* Properties of the two badges over time                                  *)

\* badge a is PAIRED with the other badge, which is not PAIRED with a
HalfPaired(a) ==
    /\ PairedWith(ctx[a], Other(a))
    /\ ~PairedWith(ctx[Other(a)], a)

\* C13: a badge that is PAIRED with a partner that is not PAIRED with it, and
\* that keeps being ticked, eventually is back in SEARCHING with its partner
\* state discarded, unless the partner completes the pairing first; a
\* one-sided pairing does not persist. (Stated for pairings that begin
\* before the last clock reading of the model.)
C13_HalfPairedResolves ==
    \A a \in Badges :
        (HalfPaired(a) /\ now < LiveHorizon)
            ~> (TornDown(ctx[a]) \/ PairedWith(ctx[Other(a)], a))

\* a tick has just reset a badge that was PAIRED with a partner that is not
\* PAIRED with it
C13_Witness ==
    \E a \in Badges :
        /\ op.name = "tick" /\ op.b = a /\ op.was = PAIRED
        /\ TornDown(ctx[a])
        /\ ~PairedWith(ctx[Other(a)], a)

---------------------------------------------------------------------------
(* Properties of the packet codec                                          *)

\* C14: in every state, pairing_handle_recv on a datagram that is shorter
\* than the header, has a foreign protocol id, declares a bitmask longer
\* than the maximum or declares a bitmask that ends beyond the datagram
\* changes no context field and sends nothing.
C14_DamagedIgnored ==
    \A i \in DamagedInputs : \A M \in {AfterRecv(i)} : IsNoOp(M)

\* a PAIRED badge has just been handed a HEARTBEAT of its partner that
\* declares more bitmask than the datagram holds
C14_Witness ==
    /\ op.name = "recv" /\ op.was = PAIRED
    /\ Ctx.partner_mac = MacX
    /\ ret \in Damaged(MSG_HEARTBEAT, MacX)
    /\ Len(ret) >= HEADER_SIZE
    /\ hdr_protocol_id(ret) = PAIRING_PROTOCOL_ID
    /\ hdr_bitmask_len(ret) <= PAIRING_BITMASK_MAX_LEN

\* the own bitmask the context holds: bitmask_len bytes at ctx->bitmask
OwnBitmask(c) == IF c.bitmask_len = 0 THEN NULL ELSE c.bitmask

\* the string at a trailing view
StringAt(view) == IF view = NULL THEN NULL ELSE Take(view, strlen(view) + 1)

Built == ret # NULL /\ ret.call = "build"

Parsed == ret # NULL /\ ret.call = "parse"

\* the context holds a bitmask length but its buffer is gone
LostBitmask(c) == c.bitmask_len > 0 /\ c.bitmask = NULL

\* C15: for every message type, every own bitmask and every optional
\* trailing string that fit the buffer, parse_incoming_packet on the buffer
\* build_packet_with_bitmask filled yields the header fields written, the
\* same bitmask bytes and length, and the same trailing string, absent
\* exactly when none was encoded.
C15_RoundTrip ==
    Parsed =>
        /\ ret.P.ok
        /\ ret.hdr = fill_packet_header(Ctx, ret.msg_type, 0, Ctx.bitmask_len, now)
        /\ ret.P.bitmask_len = Ctx.bitmask_len
        /\ ret.P.bitmask = OwnBitmask(Ctx)
        /\ (ret.P.pubkey = NULL) <=> (ret.pubkey = NULL)
        /\ StringAt(ret.P.pubkey) = ret.pubkey

\* a PROPOSAL-sized buffer carrying "K" was built and parsed after
\* pairing_set_bitmask lost the bitmask buffer: the parser hands out 'K' as
\* the bitmask and an empty string as the key
C15_KeyReadAsBitmask ==
    /\ Parsed
    /\ LostBitmask(Ctx)
    /\ Ctx.bitmask_len = 1
    /\ ret.pubkey = StrOf(1)
    /\ ret.P.bitmask = <<75>>
    /\ StringAt(ret.P.pubkey) = EmptyStr

\* header size + own bitmask length + trailing-string length with its NUL
TotalSize(c, str) == HEADER_SIZE + c.bitmask_len + (IF str = NULL THEN 0 ELSE Len(str))

\* buf holds the header, the own bitmask and the trailing string in that order
LaidOut(buf, c, msg_type, str, t) ==
    /\ SubSeq(buf, 1, HEADER_SIZE)
           = HeaderBytes(fill_packet_header(c, msg_type, 0, c.bitmask_len, t))
    /\ SubSeq(buf, HEADER_SIZE + 1, HEADER_SIZE + c.bitmask_len) = OwnBitmask(c)
    /\ SubSeq(buf, HEADER_SIZE + c.bitmask_len + 1, Len(buf)) = str

\* the machine with s as the partner's key and as the queued relay URL
Holding(s) ==
    [MachineOf(Me) EXCEPT !.c.partner_public_key = s, !.c.kex.outgoing_url = s]

\* send_key_exchange and send_relay_url send nothing when the partner's key
\* or the URL overflows their buffer, otherwise one datagram of the total size
CallersSend ==
    \A s \in CodecStrings \ {NULL} :
        \A K \in {send_key_exchange(Holding(s), now)}, R \in {send_relay_url(Holding(s), now)} :
            /\ IF TotalSize(Ctx, s) > KeyBufSize THEN K = Holding(s)
               ELSE Len(K.tx) = 1 /\ Len(K.tx[1].data) = TotalSize(Ctx, s)
            /\ IF TotalSize(Ctx, s) > RelayBufSize THEN R = Holding(s)
               ELSE Len(R.tx) = 1 /\ Len(R.tx[1].data) = TotalSize(Ctx, s)

\* build_packet_with_bitmask returns 0 when the total exceeds buf_size, else
\* the total
EncodeLength ==
    Built => Len(ret.buf) = (IF TotalSize(Ctx, ret.pubkey) > ret.buf_size
                             THEN 0 ELSE TotalSize(Ctx, ret.pubkey))

\* C16: build_packet_with_bitmask returns zero length, and its caller sends
\* nothing, whenever header size + own bitmask length + trailing-string
\* length with its terminator exceeds the buffer capacity; otherwise it
\* returns exactly that total and the buffer holds header, bitmask and
\* trailing string in that order.
C16_EncodeOverflowOrLayout ==
    /\ EncodeLength
    /\ CallersSend
    /\ (Built /\ Len(ret.buf) > 0) => LaidOut(ret.buf, Ctx, ret.msg_type, ret.pubkey, now)

\* a PROPOSAL carrying "K" was built after pairing_set_bitmask lost the
\* bitmask buffer: 'K' lies where the header says the bitmask is
C16_KeyInBitmaskSlot ==
    /\ Built
    /\ LostBitmask(Ctx)
    /\ ret.msg_type = MSG_PROPOSAL
    /\ ret.buf_size = PairBufSize
    /\ ret.pubkey = StrOf(1)
    /\ Len(ret.buf) = TotalSize(Ctx, ret.pubkey)
    /\ hdr_bitmask_len(ret.buf) = 1
    /\ SubSeq(ret.buf, HEADER_SIZE + 1, Len(ret.buf)) = <<75, 0, 0>>

\* C17: every datagram the state machine emits fits the transport's
\* datagram limit.
C17_FitsTransport ==
    \A k \in 1..Len(tx) : Len(tx[k].data) <= ESP_NOW_MAX_DATA_LEN

\* a tick has broadcast a HELLO carrying a 256-byte bitmask: 282 bytes
C17_OversizedHello ==
    /\ op.name = "tick"
    /\ Len(tx) = 1
    /\ hdr_msg_type(tx[1].data) = MSG_HELLO
    /\ hdr_bitmask_len(tx[1].data) = PAIRING_BITMASK_MAX_LEN
    /\ Len(tx[1].data) = HEADER_SIZE + PAIRING_BITMASK_MAX_LEN
    /\ Len(tx[1].data) > ESP_NOW_MAX_DATA_LEN

---------------------------------------------------------------------------
(* Properties of the configuration calls                                   *)

\* keys and bitmasks an application configures
KeyValues == {<<65, 0>>, <<66, 0>>, StrOf(PAIRING_KEY_MAX_LEN - 1)}

BitmaskValues == CodecBitmasks \cup {<<15, 240>>}

AfterSetPubkey(k) == pairing_set_pubkey(Ctx, k, now)

AfterSetBitmask(data, len, malloc_ok) == pairing_set_bitmask(Ctx, data, len, now, malloc_ok)

\* c with the identity fields of d
WithIdentityOf(c, d) ==
    [c EXCEPT !.my_public_key = d.my_public_key, !.has_pubkey = d.has_pubkey,
              !.bitmask = d.bitmask, !.bitmask_len = d.bitmask_len,
              !.has_bitmask = d.has_bitmask]

\* apart from the identity fields c is the context as it was, or as
\* pairing_reset leaves it
RestSound(c) ==
    \/ c = WithIdentityOf(Ctx, c)
    \/ c = WithIdentityOf(pairing_reset(Ctx, now), c)

\* neither readiness flag changes between the context and c
FlagsKept(c) == c.has_pubkey = Ctx.has_pubkey /\ c.has_bitmask = Ctx.has_bitmask

\* C18: for any sequence of pairing_set_pubkey and pairing_set_bitmask calls
\* the context is ready exactly when each has taken effect at least once,
\* readiness never reverts, and a repeated call leaves the identity fields
\* holding the latest values (the previous ones when the allocation for the
\* new bitmask fails) without corrupting other state.
C18_IdempotentReadiness ==
    /\ op.name = "init" => ~Ctx.has_pubkey /\ ~Ctx.has_bitmask
    /\ \A k \in KeyValues : \A c \in {AfterSetPubkey(k)} :
          /\ c = WithIdentityOf(c, [Ctx EXCEPT !.my_public_key = k, !.has_pubkey = TRUE])
          /\ pairing_is_ready(c) <=> Ctx.has_bitmask
          /\ RestSound(c)
    /\ \A m \in BitmaskValues, malloc_ok \in BOOLEAN :
          \A c \in {AfterSetBitmask(m, Len(m), malloc_ok)} :
             /\ c = WithIdentityOf(c, IF malloc_ok
                                      THEN [Ctx EXCEPT !.bitmask = m, !.bitmask_len = Len(m),
                                                       !.has_bitmask = TRUE]
                                      ELSE Ctx)
             /\ pairing_is_ready(c) <=> (Ctx.has_pubkey /\ (malloc_ok \/ Ctx.has_bitmask))
             /\ RestSound(c)
    /\ AfterSetPubkey(NULL) = Ctx
    /\ \A a \in BitmaskArgs \ {[data |-> <<255>>, len |-> 1]}, malloc_ok \in BOOLEAN :
          AfterSetBitmask(a.data, a.len, malloc_ok) = Ctx
    /\ \A i \in KexInputs : \A M \in {AfterRecv(i)} : FlagsKept(M.c)
    /\ \A M \in {AfterTick} : FlagsKept(M.c)
    /\ FlagsKept(pairing_reset(Ctx, now))
    /\ \A u \in RelayUrlArgs : FlagsKept(pairing_set_relay_url(Ctx, u))

\* a repeated pairing_set_bitmask whose allocation failed has just returned
\* on a ready badge: the bitmask buffer is gone, its length is still set
C18_BitmaskLost ==
    /\ op.name = "set_bitmask"
    /\ pairing_is_ready(Ctx)
    /\ Ctx.has_bitmask
    /\ Ctx.bitmask = NULL
    /\ Ctx.bitmask_len = 1

\* relay payloads an application pushes
UrlValues == {<<85, 0>>, <<86, 0>>, StrOf(KEY_EXCHANGE_URL_MAX_LEN - 1)}

AfterSetRelayUrl(u) == pairing_set_relay_url(Ctx, u)

\* the datagrams of type ty a call that left machine M sent
SentOfType(M, ty) == {k \in 1..Len(M.tx) : hdr_msg_type(M.tx[k].data) = ty}

\* the tick that follows the call sends the RELAY_URL datagram to the partner
\* (it does unless the datagram overflows send_relay_url's buffer or the
\* tick finds the partner's heartbeats lost)
RelaySentNext(c) ==
    \A M \in {pairing_tick(Machine(c, peers[Me]), now)} :
        /\ \E k \in SentOfType(M, MSG_RELAY_URL) : M.tx[k].dst = c.partner_mac
        /\ M.c.kex.outgoing_url_sent

\* C19: pairing_set_relay_url called while the badge is not PAIRED changes
\* nothing in the context, queues no payload and causes no RELAY_URL on the
\* following tick; called while PAIRED it queues the payload, which the
\* following tick sends.
C19_RelayUrlOnlyWhilePaired ==
    /\ AfterSetRelayUrl(NULL) = Ctx
    /\ \A u \in UrlValues : \A c \in {AfterSetRelayUrl(u)} :
          IF Ctx.current_state # PAIRED
          THEN /\ c = Ctx
               /\ ~c.kex.has_outgoing_url
               /\ \A M \in {pairing_tick(Machine(c, peers[Me]), now)} :
                     SentOfType(M, MSG_RELAY_URL) = {}
          ELSE /\ c = [Ctx EXCEPT !.kex.outgoing_url = u,
                                   !.kex.has_outgoing_url = TRUE,
                                   !.kex.outgoing_url_sent = FALSE]
               /\ (TotalSize(c, u) <= RelayBufSize /\ SinceHeartbeat <= HeartbeatLimit)
                     => RelaySentNext(c)

\* the call has just been rejected on a badge waiting for an answer to its
\* proposal
C19_Witness ==
    /\ op.name = "set_relay_url"
    /\ op.was = PROPOSING
    /\ Ctx.current_state = PROPOSING
    /\ ~Ctx.kex.has_outgoing_url
    /\ Ctx.kex.outgoing_url = EmptyStr

---------------------------------------------------------------------------
(* Properties of the similarity                                            *)

\* C20: for all pairs of bitmasks A and B, of equal or different lengths,
\* calculate_bitmask_similarity(A, B) = calculate_bitmask_similarity(B, A).
C20_SimilaritySymmetric ==
    (ret # NULL /\ ret.call = "similarity") => ret.ab = ret.ba

\* two overlapping bitmasks of different lengths have been compared
C20_Witness ==
    /\ ret # NULL
    /\ ret.call = "similarity"
    /\ ret.a = [data |-> <<255>>, len |-> 1]
    /\ ret.b = [data |-> <<255, 15>>, len |-> 2]
    /\ ret.ab = 80
    /\ ret.ba = 80

Compared == ret # NULL /\ ret.call = "similarity"

\* the bits set in the len bytes at data, as (byte index, bit number) pairs;
\* none behind a NULL pointer
BitsOf(m) ==
    IF m.data = NULL THEN {}
    ELSE {p \in (1..m.len) \X (0..7) : (m.data[p[1]] \div (2 ^ p[2])) % 2 = 1}

\* the bitmask has at least one byte
NonEmpty(m) == m.data # NULL /\ m.len > 0

\* C21: for all non-empty bitmasks A and B the similarity lies in 0..100,
\* and the similarity of A with itself is 100 whenever A has a bit set.
C21_SimilarityBounds ==
    Compared =>
        /\ ret.ab \in 0..100
        /\ ret.ba \in 0..100
        /\ (ret.a = ret.b /\ NonEmpty(ret.a) /\ BitsOf(ret.a) # {}) => ret.ab = 100

\* a two-byte bitmask with bits set has been compared with itself
C21_Witness ==
    /\ Compared
    /\ ret.a = [data |-> <<15, 240>>, len |-> 2]
    /\ ret.b = ret.a
    /\ ret.ab = 100

\* floor(200 x popcount(A AND B) / (popcount(A) + popcount(B))), the AND over
\* the overlapping bytes; 0 for a zero-length or all-zero bitmask
SimilarityPct(a, b) ==
    IF ~NonEmpty(a) \/ ~NonEmpty(b) \/ BitsOf(a) = {} \/ BitsOf(b) = {} THEN 0
    ELSE (200 * Cardinality(BitsOf(a) \cap BitsOf(b)))
             \div (Cardinality(BitsOf(a)) + Cardinality(BitsOf(b)))

\* C22: the similarity equals floor(200 x popcount(A AND B) / (popcount(A)
\* + popcount(B))), the AND taken over the overlapping byte range and the
\* trailing bytes of the longer bitmask counted in the denominator; a
\* zero-length or all-zero bitmask on either side yields 0.
C22_SimilarityFormula ==
    Compared =>
        /\ ret.ab = SimilarityPct(ret.a, ret.b)
        /\ ret.ba = SimilarityPct(ret.b, ret.a)

\* a one-byte bitmask has been compared with a longer one whose tail has
\* bits set: 200 x 4 / (4 + 12) = 50
C22_Witness ==
    /\ Compared
    /\ ret.a = [data |-> <<15>>, len |-> 1]
    /\ ret.b = [data |-> <<15, 255>>, len |-> 2]
    /\ ret.ab = 50

---------------------------------------------------------------------------
(* Properties of the paired phase                                          *)

\* the step takes the badge into PAIRED
EntersPaired == ctx[Me].current_state # PAIRED /\ ctx'[Me].current_state = PAIRED

\* C23: no operation resets or decreases heartbeat_seq except a transition
\* into PAIRED: ticks, heartbeat receipt, resets, timeouts and setter calls
\* leave it unchanged or increase it.
C23_HeartbeatSeqKept ==
    [][EntersPaired \/ ctx'[Me].heartbeat_seq >= ctx[Me].heartbeat_seq]_vars

\* pairing_reset has just run on a badge that had sent a HEARTBEAT: the
\* badge is SEARCHING and the number of the next HEARTBEAT is still 1
C23_Witness ==
    /\ op.name = "reset"
    /\ op.was = PAIRED
    /\ Ctx.current_state = SEARCHING
    /\ Ctx.heartbeat_seq = 1

\* no flag of the key-exchange subcontext is set
KexClear(k) ==
    /\ ~k.active
    /\ ~k.key_sent
    /\ ~k.key_confirmed
    /\ ~k.notified_phone
    /\ ~k.has_outgoing_url
    /\ ~k.outgoing_url_sent
    /\ ~k.has_incoming_url

\* C24: in every reachable state the key-exchange subcontext is active only
\* if current_state is PAIRED; outside PAIRED all of its flags are clear.
C24_KexOnlyWhilePaired ==
    Ctx.current_state # PAIRED => KexClear(Ctx.kex)

\* a tick has just found the heartbeats of a partner lost and left PAIRED:
\* the subcontext armed by the pairing is clear again
C24_Witness ==
    /\ op.name = "tick"
    /\ op.was = PAIRED
    /\ Ctx.current_state = SEARCHING
    /\ KexClear(Ctx.kex)
    /\ Ctx.kex.outgoing_url = EmptyStr

---------------------------------------------------------------------------
(* SpecCrowd: the badge among CrowdSize passers-by, each of which is heard *)
(* for the first time after the ones before it (their addresses are        *)
(* interchangeable). The clock stands still.                               *)

CrowdSize == 20

Passer(k) == <<40, 0, 0, 0, 0, k>>

CrowdPackets(from) ==
    {Pkt(MSG_HELLO, from, <<255>>, <<>>), Pkt(MSG_PROPOSAL, from, <<255>>, <<75, 0>>)}

\* esp_now_send returns ESP_ERR_ESPNOW_NOT_FOUND for an address that will not
\* be in the peer table when the datagram is handed over
CrowdInputs(k) ==
    {i \in RxInputs(Passer(k), CrowdPackets(Passer(k)), {TRUE}) :
        /\ i.rssi = StrongRssi
        /\ (ReadsSendResult(i.data) /\ i.env.send_ok) =>
               Passer(k) \in register_peer(MachineOf(Me), Passer(k)).peers}

CrowdRecv ==
    \E k \in 1..CrowdSize :
        /\ k = 1 \/ Passer(k - 1) \in peers[Me]
        /\ RecvOf(Me, CrowdInputs(k))

CrowdSetBitmask == SetBitmaskOf(Me, {TRUE})

NextCrowd ==
    \/ CrowdRecv
    \/ Tick(Me)
    \/ Reset(Me)
    \/ SetPubkey(Me)
    \/ CrowdSetBitmask

SpecCrowd == Init /\ [][NextCrowd]_vars

---------------------------------------------------------------------------
(* Properties of the peer table                                            *)

Unicast(d) == d.dst # espnow_broadcast_mac

PeersOnlyGrow == \A b \in DOMAIN peers : peers[b] \subseteq peers'[b]

UnicastRegistered == \A k \in DOMAIN tx : Unicast(tx[k]) => tx[k].dst \in peers[op.b]

\* C25: the peer table of a badge only grows, and every unicast datagram the
\* last call sent (PROPOSAL, ACCEPT, REJECT, HEARTBEAT, KEY_EXCHANGE,
\* RELAY_URL) went to an address that is in the sender's peer table.
C25_PeersRegistered == [][PeersOnlyGrow]_vars /\ []UnicastRegistered

\* the table is full and the badge has just sent a REJECT to an address that
\* is not in it
C25_RejectToStranger ==
    /\ op.name = "recv"
    /\ Cardinality(peers[Me]) = ESP_NOW_MAX_TOTAL_PEER_NUM
    /\ Len(tx) = 1
    /\ hdr_msg_type(tx[1].data) = MSG_REJECT
    /\ tx[1].dst \notin peers[Me]

---------------------------------------------------------------------------
(* SpecTask: espnow_task and, in the Wi-Fi task, the callbacks that post   *)
(* to its queue. A step is what one task does between two points where    *)
(* the other can run: a queue call, a heap call, a call of the state       *)
(* machine. The clock stands still.                                        *)

ESPNOW_QUEUE_SIZE == 6

ESPNOW_SEND_CB == 0

ESPNOW_RECV_CB == 1

TaskPackets == {Pkt(MSG_PROPOSAL, MacX, <<255>>, <<75, 0>>)}

TaskEnv == [malloc_ok |-> TRUE, send_ok |-> TRUE, heap |-> <<0>>]

\* the badge has its key and bitmask when the task starts
TaskInit ==
    InitWith([b \in {Me} |->
                 pairing_set_bitmask(pairing_set_pubkey(pairing_init(Me, 0), <<65, 0>>, 0),
                                     <<255>>, 1, 0, TRUE)])

\* what malloc can return: 0, or the lowest address it has not handed out
\* yet (the model's heap gives no address twice)
malloc == {0} \cup {a \in Addrs : mem[a].fresh /\ \A b \in 1..(a - 1) : ~mem[b].fresh}

free(a) ==
    /\ mem' = [mem EXCEPT ![a] = FreeBlock]
    /\ fault' = IF mem[a].live THEN fault ELSE fault \cup {"double free"}

\* espnow_recv_cb up to xQueueSend: the datagram copied into a new block
RecvCb ==
    /\ cb.pc = "idle"
    /\ \E data \in TaskPackets, a \in malloc :
          /\ a # 0
          /\ mem' = [mem EXCEPT ![a] = [live |-> TRUE, fresh |-> FALSE, bytes |-> data]]
          /\ cb' = [pc |-> "send",
                    evt |-> [id |-> ESPNOW_RECV_CB, mac_addr |-> MacX, data |-> a,
                             data_len |-> Len(data), rssi |-> StrongRssi]]
    /\ UNCHANGED <<ctx, peers, now, op, tx, ble, air, ret, queue, task, fault>>

\* espnow_send_cb up to xQueueSend
SendCb ==
    /\ cb.pc = "idle"
    /\ cb' = [pc |-> "send", evt |-> [NoEvent EXCEPT !.id = ESPNOW_SEND_CB, !.mac_addr = MacX]]
    /\ UNCHANGED <<ctx, peers, now, op, tx, ble, air, ret, queue, mem, task, fault>>

\* seeded fault: a receive callback that frees the block it has posted
CbEnqueue_frees ==
    /\ cb.pc = "send"
    /\ Len(queue) < ESPNOW_QUEUE_SIZE
    /\ queue' = Append(queue, cb.evt)
    /\ cb' = [cb EXCEPT !.pc = IF cb.evt.id = ESPNOW_RECV_CB THEN "free" ELSE "idle"]
    /\ UNCHANGED <<ctx, peers, now, op, tx, ble, air, ret, mem, task, fault>>

\* xQueueSend returns pdTRUE: the event is copied into the queue
CbEnqueue ==
    /\ cb.pc = "send"
    /\ Len(queue) < ESPNOW_QUEUE_SIZE
    /\ queue' = Append(queue, cb.evt)
    /\ cb' = Idle
    /\ UNCHANGED <<ctx, peers, now, op, tx, ble, air, ret, mem, task, fault>>

\* xQueueSend gives up after ESPNOW_MAXDELAY ticks of a full queue
CbGiveUp ==
    /\ cb.pc = "send"
    /\ Len(queue) = ESPNOW_QUEUE_SIZE
    /\ cb' = IF cb.evt.id = ESPNOW_RECV_CB THEN [cb EXCEPT !.pc = "free"] ELSE Idle
    /\ UNCHANGED <<ctx, peers, now, op, tx, ble, air, ret, queue, mem, task, fault>>

CbFree ==
    /\ cb.pc = "free"
    /\ free(cb.evt.data)
    /\ cb' = Idle
    /\ UNCHANGED <<ctx, peers, now, op, tx, ble, air, ret, queue, task>>

\* xQueueReceive returns pdTRUE with the oldest event
TaskReceive ==
    /\ task.pc = "receive"
    /\ queue # <<>>
    /\ queue' = Tail(queue)
    /\ task' = [pc |-> IF Head(queue).id = ESPNOW_RECV_CB THEN "handle" ELSE "tick",
                evt |-> Head(queue)]
    /\ UNCHANGED <<ctx, peers, now, op, tx, ble, air, ret, mem, cb, fault>>

\* xQueueReceive returns pdFALSE after PAIRING_REBROADCAST_MS of an empty queue
TaskTimeout ==
    /\ task.pc = "receive"
    /\ queue = <<>>
    /\ task' = [task EXCEPT !.pc = "tick"]
    /\ UNCHANGED <<ctx, peers, now, op, tx, ble, air, ret, queue, mem, cb, fault>>

\* case ESPNOW_RECV_CB: pairing_handle_recv reads the block; what it reads
\* from a block that is no longer allocated is anything
TaskHandle ==
    /\ task.pc = "handle"
    /\ \E data \in (IF mem[task.evt.data].live THEN {mem[task.evt.data].bytes}
                                               ELSE TaskPackets) :
          \E M \in {pairing_handle_recv(MachineOf(Me), task.evt.mac_addr, data,
                                        task.evt.rssi, now, TaskEnv)} :
              Apply(Me, M, Delivery(Me, data))
    /\ fault' = IF mem[task.evt.data].live THEN fault ELSE fault \cup {"use after free"}
    /\ task' = [task EXCEPT !.pc = "free"]
    /\ UNCHANGED <<now, air, ret, queue, mem, cb>>

\* seeded fault: a loop that goes back to the queue after an event
TaskFree_continue ==
    /\ task.pc = "free"
    /\ free(task.evt.data)
    /\ task' = [task EXCEPT !.pc = "receive"]
    /\ UNCHANGED <<ctx, peers, now, op, tx, ble, air, ret, queue, cb>>

TaskFree ==
    /\ task.pc = "free"
    /\ free(task.evt.data)
    /\ task' = [task EXCEPT !.pc = "tick"]
    /\ UNCHANGED <<ctx, peers, now, op, tx, ble, air, ret, queue, cb>>

TaskTick ==
    /\ task.pc = "tick"
    /\ \E M \in {pairing_tick(MachineOf(Me), now)} : Apply(Me, M, Call("tick", Me))
    /\ task' = [pc |-> "receive", evt |-> NoEvent]
    /\ UNCHANGED <<now, air, ret, queue, mem, cb, fault>>

NextTask ==
    \/ RecvCb
    \/ SendCb
    \/ CbEnqueue
    \/ CbGiveUp
    \/ CbFree
    \/ TaskReceive
    \/ TaskTimeout
    \/ TaskHandle
    \/ TaskFree
    \/ TaskTick

SpecTask == TaskInit /\ [][NextTask]_vars

\* espnow_task is scheduled whenever it can run: the callbacks run in the
\* Wi-Fi task, which blocks between datagrams, and xQueueReceive returns
\* after PAIRING_REBROADCAST_MS at the latest. pairing_handle_recv waits for
\* nothing, so the loop does not stay in it (weak fairness of TaskHandle,
\* which is enabled exactly while the loop is at "handle").
SpecTaskLive ==
    /\ SpecTask
    /\ WF_vars(TaskReceive \/ TaskTimeout \/ TaskFree)
    /\ WF_vars(TaskTick)
    /\ []<>(task.pc # "handle")

---------------------------------------------------------------------------
(* Properties of the dispatch loop                                         *)

\* the places that hold the address of a received datagram's block: the
\* event the callback is posting, the events in the queue, the event the
\* loop is handling
CbHolds(a) == cb.pc \in {"send", "free"} /\ cb.evt.id = ESPNOW_RECV_CB /\ cb.evt.data = a

QueueHolds(a) == {k \in DOMAIN queue : queue[k].id = ESPNOW_RECV_CB /\ queue[k].data = a}

TaskHolds(a) == task.pc \in {"handle", "free"} /\ task.evt.data = a

Holders(a) ==
    Cardinality(QueueHolds(a)) + (IF CbHolds(a) THEN 1 ELSE 0) + (IF TaskHolds(a) THEN 1 ELSE 0)

\* an allocated block has one holder, which will free it; a block that is
\* not allocated has none, so nothing will read or free it
OneOwner == \A a \in Addrs : Holders(a) = IF mem[a].live THEN 1 ELSE 0

Freed(a) == mem[a].live /\ ~mem'[a].live

\* a block is freed by the loop, after pairing_handle_recv has run on it, or
\* by the callback whose xQueueSend failed, so that no event in the queue
\* points to it
FreedInPlace ==
    \A a \in Addrs :
        Freed(a) =>
            \/ task.pc = "free" /\ task.evt.data = a /\ op.name = "recv" /\ task'.pc = "tick"
            \/ cb.pc = "free" /\ cb.evt.data = a /\ QueueHolds(a) = {} /\ cb' = Idle

\* the state machine is called from the loop only
LogicInLoop == <<ctx, peers, op, tx, ble>>' # <<ctx, peers, op, tx, ble>> => cb' = cb /\ task' # task

\* C26: under every interleaving of the callbacks and the dispatch loop, no
\* block is freed twice or read after it was freed, every allocated block is
\* held by exactly one of callback, queue and loop (none is leaked), a block
\* is freed by the loop after pairing_handle_recv or by the callback after a
\* failed xQueueSend, and no step of a callback changes the pairing context.
C26_BufferFreedOnce == [](fault = {} /\ OneOwner) /\ [][FreedInPlace /\ LogicInLoop]_vars

\* the queue is full, the loop has taken one block back out of it and freed
\* it, and the callback has freed the block it could not post
C26_Witness ==
    /\ fault = {}
    /\ Len(queue) = ESPNOW_QUEUE_SIZE
    /\ cb = Idle
    /\ task.pc = "tick"
    /\ ~mem[1].live /\ ~mem[1].fresh
    /\ ~mem[MaxBufs].live /\ ~mem[MaxBufs].fresh
    /\ \A k \in DOMAIN queue : queue[k].id = ESPNOW_RECV_CB /\ mem[queue[k].data].live

\* a turn of the loop ends: the loop goes back to xQueueReceive
TurnEnds == task.pc # "receive" /\ task'.pc = "receive"

TickCalled == task.pc = "tick" /\ op'.name = "tick" /\ task'.pc = "receive"

\* every turn of the loop, which waits once and handles at most one event,
\* ends with pairing_tick, and the state machine is entered by one step of
\* the loop at a time
TickEachTurn ==
    /\ TurnEnds => TickCalled
    /\ op' # op => task.pc \in {"handle", "tick"} /\ task'.pc # task.pc

\* C27: pairing_tick is called at the end of every turn of the dispatch
\* loop, a turn being one wait on the queue and the handling of at most one
\* event; it is called again and again whatever the callbacks post, and
\* never in the same step as pairing_handle_recv.
C27_TickNotStarved == [][TickEachTurn]_vars /\ []<><<TickCalled>>_vars

\* pairing_tick has just run in a turn that took an event from a full queue,
\* and the queue is full again
C27_Witness ==
    /\ op.name = "tick"
    /\ task.pc = "receive"
    /\ Len(queue) = ESPNOW_QUEUE_SIZE
    /\ cb.pc = "send"
    /\ ~mem[1].live /\ ~mem[1].fresh

---------------------------------------------------------------------------
(* Properties of the key exchange between two badges                       *)

MutuallyPaired ==
    \A b \in Badges : ctx[b].current_state = PAIRED /\ ctx[b].partner_mac = Other(b)

\* the KEY_EXCHANGE datagrams of the last call
KeyExchanges == {k \in DOMAIN tx : hdr_msg_type(tx[k].data) = MSG_KEY_EXCHANGE}

\* a KEY_EXCHANGE goes to the partner and ends with the partner's key
KeyExchangeCarriesKey ==
    \A k \in KeyExchanges :
        /\ tx[k].dst = ctx[op.b].partner_mac
        /\ parse_incoming_packet(tx[k].data).pubkey = ctx[op.b].partner_public_key

\* badge b has sent its KEY_EXCHANGE and told its phone the partner's key
Completed(b) == ctx[b].kex.key_sent /\ ctx[b].kex.notified_phone

\* C28: two badges that are paired with each other and stay so each send a
\* KEY_EXCHANGE with the partner's key to the other, and each eventually
\* tells its phone the partner's key.
C28_KeyExchangeCompletes ==
    /\ []KeyExchangeCarriesKey
    /\ <>[]MutuallyPaired => \A b \in Badges : <>(MutuallyPaired /\ Completed(b))

\* the badges are paired with each other, both have sent their KEY_EXCHANGE,
\* nothing is in the air, and MacX never got the one meant for it
C28_KeyExchangeLost ==
    /\ MutuallyPaired
    /\ now = LiveHorizon
    /\ air = {}
    /\ \A b \in Badges : ctx[b].kex.key_sent
    /\ Completed(MacY)
    /\ ~ctx[MacX].kex.key_confirmed

---------------------------------------------------------------------------
(* Properties of the entry into PAIRED                                     *)

\* the counters of a pairing that has just begun at time t
FreshPairing(c, t) ==
    /\ c.last_heartbeat_sent = get_time_ms(t)
    /\ c.last_heartbeat_recv = get_time_ms(t)
    /\ c.heartbeat_seq = 0
    /\ c.partner_seq = 0
    /\ c.missed_heartbeats = 0
    /\ c.kex = [ZeroKex EXCEPT !.active = TRUE]

\* C29: every step that takes the badge into PAIRED (an ACCEPT while
\* PROPOSING, a PROPOSAL accepted from SEARCHING or by tie-break) leaves
\* both heartbeat times at the current time, heartbeat_seq, partner_seq and
\* missed_heartbeats at zero and the key-exchange subcontext zero except
\* for its active flag.
C29_PairedStartsFresh == [][EntersPaired => FreshPairing(ctx'[Me], now)]_vars

\* a PROPOSAL accepted from SEARCHING after an earlier pairing in which a
\* HEARTBEAT was received: partner_seq still holds that heartbeat's number
C29_StalePartnerSeq ==
    /\ op.name = "recv"
    /\ op.was = SEARCHING
    /\ Ctx.current_state = PAIRED
    /\ Ctx.heartbeat_seq = 0
    /\ Ctx.missed_heartbeats = 0
    /\ Ctx.kex = [ZeroKex EXCEPT !.active = TRUE]
    /\ Ctx.partner_seq = RxSeq

---------------------------------------------------------------------------
(* Properties of the heartbeats sent                                       *)

\* the HEARTBEAT datagrams among the sends t of a call
HeartbeatsIn(t) == {k \in DOMAIN t : hdr_msg_type(t[k].data) = MSG_HEARTBEAT}

\* a call that sends a HEARTBEAT is a tick of a PAIRED badge whose last
\* heartbeat is at least PAIRING_HEARTBEAT_MS old; it sends one, to the
\* partner, numbered with the counter, and counts it. A call that sends none
\* leaves the counter alone unless it enters PAIRED, which zeroes it.
HeartbeatRule ==
    LET c == ctx[Me]
        sent == HeartbeatsIn(tx')
    IN  IF sent # {}
        THEN /\ op'.name = "tick"
             /\ c.current_state = PAIRED
             /\ Elapsed(now, c.last_heartbeat_sent) >= PAIRING_HEARTBEAT_MS
             /\ Cardinality(sent) = 1
             /\ \A k \in sent :
                    /\ tx'[k].dst = c.partner_mac
                    /\ hdr_seq_num(tx'[k].data) = c.heartbeat_seq
             /\ ctx'[Me].heartbeat_seq = c.heartbeat_seq + 1
             /\ ctx'[Me].last_heartbeat_sent = get_time_ms(now)
        ELSE ctx'[Me].heartbeat_seq = IF EntersPaired THEN 0 ELSE c.heartbeat_seq

\* C30: a HEARTBEAT is sent only by a tick of a PAIRED badge, to the
\* partner, once the send interval has passed since the previous one (or
\* since the pairing began); it carries the number of HEARTBEATs sent before
\* it in this pairing, so the numbers of successive HEARTBEATs of a pairing
\* are 0, 1, 2, ...: each one more than the one before.
C30_HeartbeatCadence == [][now' = now => HeartbeatRule]_vars

\* the second HEARTBEAT of a pairing has just been sent: it carries 1
C30_Witness ==
    /\ op.name = "tick"
    /\ Ctx.current_state = PAIRED
    /\ Ctx.heartbeat_seq = 2
    /\ Ctx.last_heartbeat_sent = now
    /\ Len(tx) = 1
    /\ hdr_msg_type(tx[1].data) = MSG_HEARTBEAT
    /\ hdr_seq_num(tx[1].data) = 1

---------------------------------------------------------------------------
(* Properties of the heartbeats received                                   *)

\* HEARTBEATs from either peer: numbered 0 or RxSeq, at every signal strength
Heartbeats ==
    {[mac |-> f,
      data |-> MkPacket(PAIRING_PROTOCOL_ID, MSG_HEARTBEAT, f, s, 0, <<>>, <<>>),
      rssi |-> r,
      env |-> [malloc_ok |-> TRUE, send_ok |-> TRUE, heap |-> <<0>>]] :
        f \in Senders, s \in {0, RxSeq}, r \in Rssis}

\* the context a HEARTBEAT i from the partner leaves
HeartbeatTaken(i) ==
    [Ctx EXCEPT !.last_heartbeat_recv = now,
                !.missed_heartbeats = 0,
                !.partner_seq = hdr_seq_num(i.data),
                !.partner_rssi = i.rssi]

\* ticks after a HEARTBEAT taken now, the latest of them one millisecond
\* short of the loss limit
TicksInTime == {now, now + PAIRING_HEARTBEAT_MS, now + HeartbeatLimit - 1}

\* C31: in PAIRED a HEARTBEAT from the partner sets last_heartbeat_recv to
\* the current time, zeroes the missed counter, records the datagram's
\* sequence number as partner_seq and its signal strength as partner_rssi,
\* sends nothing and leaves everything else, the state PAIRED included, as it
\* was; a tick less than 5000 ms after such a HEARTBEAT does not reset the
\* badge.
C31_HeartbeatKeepsPaired ==
    \A i \in Heartbeats :
        Paired /\ FromPartner(i) =>
            \A M \in {AfterRecv(i)} :
                /\ M = [MachineOf(Me) EXCEPT !.c = HeartbeatTaken(i)]
                /\ M.c.current_state = PAIRED
                /\ \A t \in TicksInTime :
                      \A M2 \in {pairing_tick(Machine(M.c, M.peers), t)} :
                          /\ M2.c.current_state = PAIRED
                          /\ M2.c.partner_mac = Ctx.partner_mac
                          /\ M2.c.last_heartbeat_recv = now

\* a tick has left the badge PAIRED and sent the first HEARTBEAT of a pairing
\* that is therefore more than a second old; the partner's HEARTBEAT, number
\* RxSeq, arrived in that pairing, 5000 ms after boot or later
C31_Witness ==
    /\ op.name = "tick" /\ op.was = PAIRED
    /\ Ctx.current_state = PAIRED
    /\ now > HeartbeatLimit
    /\ Len(tx) = 1
    /\ hdr_msg_type(tx[1].data) = MSG_HEARTBEAT
    /\ hdr_seq_num(tx[1].data) = 0
    /\ Ctx.partner_seq = RxSeq
    /\ Ctx.partner_rssi = StrongRssi
    /\ Ctx.last_heartbeat_recv >= HeartbeatLimit

---------------------------------------------------------------------------
(* Properties of the partner-key notification                              *)

\* the messages to the phone, among those of a call, that begin "PARTNER:"
PartnerLines(said) ==
    {k \in DOMAIN said : Take(said[k], Len(PartnerPrefix)) = PartnerPrefix}

\* "PARTNER:<key>\r" as a C string
PartnerLine(key) == PartnerPrefix \o Take(key, strlen(key)) \o <<13, 0>>

\* the step begins and ends in PAIRED: it is within one pairing session
SameSession == ctx[Me].current_state = PAIRED /\ ctx'[Me].current_state = PAIRED

\* a receive confirms the key exchange only in PAIRED and only for a
\* KEY_EXCHANGE datagram from the partner, and tells the phone nothing
ConfirmedByPartnerOnly ==
    \A i \in KexInputs : \A M \in {AfterRecv(i)} :
        /\ M.ble = <<>>
        /\ (M.c.kex.key_confirmed /\ ~Ctx.kex.key_confirmed) =>
               /\ Paired /\ FromPartner(i)
               /\ Parses(i.data) /\ hdr_msg_type(i.data) = MSG_KEY_EXCHANGE

\* the longest key a context stores is told whole
PartnerLineFits ==
    \A n \in {0, 1, PAIRING_KEY_MAX_LEN - 1} :
        snprintf_msg(PAIRING_KEY_MAX_LEN + 16, PartnerPrefix, StrOf(n))
            = PartnerLine(StrOf(n))

\* a session begins with the key exchange unconfirmed and the phone not
\* told; within a session the partner and its stored key stay, both flags
\* once set stay set, and only a receive confirms; the phone is told by a
\* tick in PAIRED that finds the exchange confirmed and the phone not told,
\* once, the stored key, and the flag is set by nothing else
PartnerToldRule ==
    LET c == ctx[Me]
        d == ctx'[Me]
        said == PartnerLines(ble')
    IN  /\ EntersPaired => ~d.kex.key_confirmed /\ ~d.kex.notified_phone
        /\ SameSession =>
               /\ d.partner_mac = c.partner_mac
               /\ d.partner_public_key = c.partner_public_key
               /\ c.kex.key_confirmed => d.kex.key_confirmed
               /\ c.kex.notified_phone => d.kex.notified_phone
               /\ (d.kex.key_confirmed /\ ~c.kex.key_confirmed) => op'.name = "recv"
        /\ IF said # {}
           THEN /\ op'.name = "tick"
                /\ SameSession
                /\ c.kex.key_confirmed /\ ~c.kex.notified_phone
                /\ d.kex.notified_phone
                /\ Cardinality(said) = 1
                /\ \A k \in said : ble'[k] = PartnerLine(c.partner_public_key)
           ELSE d.kex.notified_phone => (SameSession /\ c.kex.notified_phone)

\* C32: the partner-key notification is emitted only by a tick in PAIRED
\* after a KEY_EXCHANGE from the current partner was received in the current
\* pairing session, it carries the stored partner public key, and it is
\* emitted at most once per pairing session.
C32_PartnerToldOnce ==
    /\ [](ConfirmedByPartnerOnly /\ PartnerLineFits)
    /\ [][now' = now => PartnerToldRule]_vars

\* a tick has just told the phone the key "K" of the partner
C32_Witness ==
    /\ op.name = "tick" /\ op.was = PAIRED
    /\ Ctx.current_state = PAIRED
    /\ Ctx.kex.key_confirmed /\ Ctx.kex.notified_phone
    /\ Ctx.partner_public_key = <<75, 0>>
    /\ ble = <<PartnerPrefix \o <<75, 13, 0>>>>

---------------------------------------------------------------------------
(* Properties of the KEY_EXCHANGE sent                                     *)

\* the KEY_EXCHANGE datagrams among the sends of a call
KeyExchangesIn(sent) ==
    {k \in DOMAIN sent : hdr_msg_type(sent[k].data) = MSG_KEY_EXCHANGE}

\* the badge as it is, and with the longest key the partner_public_key field
\* holds: with that key the KEY_EXCHANGE does not fit send_key_exchange's
\* buffer and build_packet_with_bitmask returns 0
StoredKeys == {Ctx.partner_public_key, StrOf(PAIRING_KEY_MAX_LEN - 1)}

\* a tick that finds the badge PAIRED, the partner's heartbeats not lost and
\* the KEY_EXCHANGE not yet sent sets key_sent whether or not a datagram
\* could be built, and calls the transport once if one could and not at all
\* if none could; the tick after it sends no KEY_EXCHANGE
KeySentWhateverHappens ==
    (Paired /\ ~Ctx.kex.key_sent /\ SinceHeartbeat <= HeartbeatLimit) =>
        \A key \in StoredKeys :
            \A c \in {[Ctx EXCEPT !.partner_public_key = key]} :
            \A M \in {pairing_tick(Machine(c, peers[Me]), now)} :
                /\ M.c.current_state = PAIRED
                /\ M.c.kex.key_sent
                /\ Cardinality(KeyExchangesIn(M.tx))
                       = IF TotalSize(c, key) > KeyBufSize THEN 0 ELSE 1
                /\ \A M2 \in {pairing_tick(Machine(M.c, M.peers), now)} :
                       /\ KeyExchangesIn(M2.tx) = {}
                       /\ M2.c.kex.key_sent

\* a session begins with key_sent clear and keeps it once set; a call that
\* sends a KEY_EXCHANGE is a tick within a session that found key_sent
\* clear, sends one, to the partner, and sets key_sent; every tick within a
\* session leaves key_sent set, and one that found it clear has sent the
\* KEY_EXCHANGE
KeySentRule ==
    LET c == ctx[Me]
        d == ctx'[Me]
        sent == KeyExchangesIn(tx')
    IN  /\ EntersPaired => ~d.kex.key_sent /\ sent = {}
        /\ SameSession /\ c.kex.key_sent => d.kex.key_sent
        /\ sent # {} =>
               /\ op'.name = "tick"
               /\ SameSession
               /\ ~c.kex.key_sent
               /\ Cardinality(sent) = 1
               /\ \A k \in sent : tx'[k].dst = c.partner_mac
        /\ (op'.name = "tick" /\ SameSession) =>
               /\ d.kex.key_sent
               /\ ~c.kex.key_sent => sent # {}
        /\ (d.kex.key_sent /\ ~c.kex.key_sent) => (op'.name = "tick" /\ SameSession)

\* C33: the KEY_EXCHANGE is attempted by the first tick of a pairing session
\* and only by it: that tick sets key_sent even when no datagram could be
\* built, the transport's result is not looked at, and no later tick of the
\* session sends a KEY_EXCHANGE.
C33_KeyExchangeOnce ==
    /\ []KeySentWhateverHappens
    /\ [][now' = now => KeySentRule]_vars

\* the first tick of a pairing has just sent the KEY_EXCHANGE, alone
C33_Witness ==
    /\ op.name = "tick" /\ op.was = PAIRED
    /\ Ctx.current_state = PAIRED
    /\ Ctx.kex.key_sent
    /\ Len(tx) = 1
    /\ hdr_msg_type(tx[1].data) = MSG_KEY_EXCHANGE
    /\ tx[1].dst = Ctx.partner_mac

---------------------------------------------------------------------------
(* Properties of the relay payload sent                                    *)

\* the RELAY_URL datagrams among the sends of a call
RelaysIn(sent) == {k \in DOMAIN sent : hdr_msg_type(sent[k].data) = MSG_RELAY_URL}

\* a payload is queued and not yet marked sent
Armed(k) == k.has_outgoing_url /\ ~k.outgoing_url_sent

\* a payload is armed by an accepted pairing_set_relay_url and by nothing
\* else; a tick within a session that finds a payload armed sends one
\* RELAY_URL, to the partner, carrying it, and marks it sent; no other call
\* sends a RELAY_URL or marks a payload sent, and the payload stays marked
\* through the session until the next is set
RelayRule ==
    LET c == ctx[Me]
        d == ctx'[Me]
        sent == RelaysIn(tx')
    IN  /\ (Armed(d.kex) /\ (~Armed(c.kex) \/ d.kex.outgoing_url # c.kex.outgoing_url)) =>
               (op'.name = "set_relay_url" /\ SameSession)
        /\ (op'.name = "set_relay_url" /\ d # c) => Armed(d.kex)
        /\ IF op'.name = "tick" /\ SameSession /\ Armed(c.kex)
           THEN /\ Cardinality(sent) = 1
                /\ \A k \in sent :
                       /\ tx'[k].dst = c.partner_mac
                       /\ parse_incoming_packet(tx'[k].data).pubkey = c.kex.outgoing_url
                /\ d.kex.has_outgoing_url /\ d.kex.outgoing_url_sent
                /\ d.kex.outgoing_url = c.kex.outgoing_url
           ELSE /\ sent = {}
                /\ d.kex.outgoing_url_sent => (SameSession /\ c.kex.outgoing_url_sent)
        /\ (SameSession /\ c.kex.outgoing_url_sent /\ op'.name # "set_relay_url") =>
               d.kex.outgoing_url_sent

\* C34: after pairing_set_relay_url accepts a payload, the next tick in
\* PAIRED sends exactly one RELAY_URL datagram carrying that payload to the
\* partner, later ticks send none until a new payload is set, and setting a
\* new payload re-arms the sending.
C34_RelaySentOnce == [][now' = now => RelayRule]_vars

\* the first tick of a pairing has sent the KEY_EXCHANGE and no RELAY_URL,
\* and has marked the queued 511-character payload as sent
C34_RelayDropped ==
    /\ op.name = "tick" /\ op.was = PAIRED
    /\ Ctx.current_state = PAIRED
    /\ Ctx.bitmask # NULL
    /\ Ctx.kex.has_outgoing_url /\ Ctx.kex.outgoing_url_sent
    /\ strlen(Ctx.kex.outgoing_url) = KEY_EXCHANGE_URL_MAX_LEN - 1
    /\ KeyExchangesIn(tx) # {}
    /\ RelaysIn(tx) = {}

---------------------------------------------------------------------------
(* Properties of the relay payload received                                *)

\* relay payloads as the partner's encoder ends them: "", "K", "L"
RelayPayloads == {<<0>>, <<75, 0>>, <<76, 0>>}

\* RELAY_URL datagrams with each payload and with none, from either peer
RelayInputs ==
    {[mac |-> f, data |-> Pkt(MSG_RELAY_URL, f, <<255>>, s), rssi |-> StrongRssi,
      env |-> [malloc_ok |-> TRUE, send_ok |-> TRUE, heap |-> <<0>>]] :
        f \in Senders, s \in RelayPayloads \cup {<<>>}}

\* the messages to the phone, among those of a call, that begin "RECV_URL:"
RecvUrlLines(said) ==
    {k \in DOMAIN said : Take(said[k], Len(RecvUrlPrefix)) = RecvUrlPrefix}

\* "RECV_URL:<payload>\r" as a C string
RecvUrlLine(url) == RecvUrlPrefix \o Take(url, strlen(url)) \o <<13, 0>>

\* a RELAY_URL with a payload, from the partner of a PAIRED badge
TakesRelay(i) ==
    /\ Paired /\ FromPartner(i)
    /\ Parses(i.data) /\ hdr_msg_type(i.data) = MSG_RELAY_URL
    /\ HasKey(i)

\* such a datagram replaces the pending payload and sets the flag, and does
\* nothing else; no other datagram touches the payload or the flag; no
\* receive notifies
RelayStored ==
    \A i \in KexInputs \cup RelayInputs : \A M \in {AfterRecv(i)} :
        /\ M.ble = <<>>
        /\ IF TakesRelay(i)
           THEN M = [MachineOf(Me) EXCEPT
                        !.c.kex.incoming_url = parse_incoming_packet(i.data).pubkey,
                        !.c.kex.has_incoming_url = TRUE]
           ELSE /\ M.c.kex.incoming_url = Ctx.kex.incoming_url
                /\ M.c.kex.has_incoming_url = Ctx.kex.has_incoming_url

\* the longest payload a context stores is told whole
RecvUrlLineFits ==
    \A n \in {0, 1, KEY_EXCHANGE_URL_MAX_LEN - 1} :
        snprintf_msg(KEY_EXCHANGE_URL_MAX_LEN + 16, RecvUrlPrefix, StrOf(n))
            = RecvUrlLine(StrOf(n))

\* a session begins with nothing pending; only a receive within a session
\* sets the flag; a tick within a session that finds a payload pending
\* tells the phone that payload, once, and clears the flag; no other call
\* tells the phone a payload
RelayToldRule ==
    LET c == ctx[Me]
        d == ctx'[Me]
        said == RecvUrlLines(ble')
    IN  /\ EntersPaired => ~d.kex.has_incoming_url
        /\ (d.kex.has_incoming_url /\ ~c.kex.has_incoming_url) =>
               (op'.name = "recv" /\ SameSession)
        /\ IF op'.name = "tick" /\ SameSession /\ c.kex.has_incoming_url
           THEN /\ Cardinality(said) = 1
                /\ \A k \in said : ble'[k] = RecvUrlLine(c.kex.incoming_url)
                /\ ~d.kex.has_incoming_url
           ELSE said = {}

\* C35: a RELAY_URL with a payload received from the partner while PAIRED is
\* stored as the pending incoming payload; the next tick in PAIRED emits one
\* relay-received notification carrying the payload stored last and clears
\* the pending flag, so no payload is notified twice and none is notified
\* without a RELAY_URL from the partner.
C35_RelayToldOnce ==
    /\ [](RelayStored /\ RecvUrlLineFits)
    /\ [][now' = now => RelayToldRule]_vars

\* a tick has just told the phone the payload "K" and cleared the flag
C35_Witness ==
    /\ op.name = "tick" /\ op.was = PAIRED
    /\ Ctx.current_state = PAIRED
    /\ Ctx.kex.incoming_url = <<75, 0>>
    /\ ~Ctx.kex.has_incoming_url
    /\ RecvUrlLines(ble) # {}
    /\ \A k \in RecvUrlLines(ble) : ble[k] = RecvUrlPrefix \o <<75, 13, 0>>

---------------------------------------------------------------------------
(* Properties of the order of the key-exchange steps                       *)

\* a call that tells the phone a received payload leaves the phone told the
\* partner's key, and told it earlier: on an earlier tick of the session or
\* earlier in this one
UrlAfterPartner ==
    \A k \in RecvUrlLines(ble') :
        /\ ctx'[Me].kex.notified_phone
        /\ ctx[Me].kex.notified_phone \/ \E j \in PartnerLines(ble') : j < k

\* a call that sends a RELAY_URL has sent the KEY_EXCHANGE before it, or an
\* earlier tick of the session has
RelayAfterKey ==
    \A k \in RelaysIn(tx') :
        /\ ctx'[Me].kex.key_sent
        /\ ctx[Me].kex.key_sent \/ \E j \in KeyExchangesIn(tx') : j < k

\* C36: within a pairing session a badge emits the relay-received
\* notification (RECV_URL) only after it has emitted the partner-key
\* notification (PARTNER), and sends a RELAY_URL only after it has sent its
\* KEY_EXCHANGE.
C36_KexOrder == [][now' = now => UrlAfterPartner /\ RelayAfterKey]_vars

\* a tick has just told the phone the payload "K" of a partner whose
\* KEY_EXCHANGE never came: the phone has not been told the partner's key
C36_UrlBeforePartner ==
    /\ op.name = "tick" /\ op.was = PAIRED
    /\ Ctx.current_state = PAIRED
    /\ ~Ctx.kex.key_confirmed /\ ~Ctx.kex.notified_phone
    /\ PartnerLines(ble) = {}
    /\ \E k \in RecvUrlLines(ble) : ble[k] = RecvUrlPrefix \o <<75, 13, 0>>

---------------------------------------------------------------------------
(* Properties of the HELLO broadcast                                       *)

\* the HELLO datagrams among the sends of a call
HellosIn(sent) == {k \in DOMAIN sent : hdr_msg_type(sent[k].data) = MSG_HELLO}

\* a call that sends a HELLO is a tick of a ready badge in SEARCHING, at
\* least PAIRING_REBROADCAST_MS after last_action_time; it sends that one
\* datagram only, to the broadcast address, with the own bitmask and nothing
\* behind it, stays in SEARCHING and restarts the rebroadcast timer
HelloRule ==
    LET c == ctx[Me]
        d == ctx'[Me]
    IN  HellosIn(tx') # {} =>
            /\ op'.name = "tick"
            /\ pairing_is_ready(c)
            /\ c.current_state = SEARCHING /\ d.current_state = SEARCHING
            /\ Elapsed(now, c.last_action_time) >= PAIRING_REBROADCAST_MS
            /\ d.last_action_time = get_time_ms(now)
            /\ Len(tx') = 1
            /\ tx'[1].dst = espnow_broadcast_mac
            /\ \A P \in {parse_incoming_packet(tx'[1].data)} :
                   /\ P.ok
                   /\ P.bitmask_len = c.bitmask_len
                   /\ P.bitmask = c.bitmask
                   /\ P.pubkey = NULL

\* C37: a HELLO is broadcast only by a tick of a ready badge in SEARCHING,
\* once the rebroadcast interval has passed since last_action_time; it
\* carries the badge's own bitmask and no key; a badge in PROPOSING or PAIRED
\* never broadcasts one, and a tick sends at most one.
C37_HelloOnlyWhileSearching == [][now' = now => HelloRule]_vars

\* a tick has just broadcast a HELLO that announces one byte of bitmask and
\* carries a zero byte: the badge's bitmask buffer had been lost
C37_HelloWithoutBitmask ==
    /\ op.name = "tick" /\ op.was = SEARCHING
    /\ Ctx.current_state = SEARCHING
    /\ Ctx.has_bitmask /\ Ctx.bitmask = NULL /\ Ctx.bitmask_len = 1
    /\ Len(tx) = 1
    /\ tx[1].dst = espnow_broadcast_mac
    /\ hdr_msg_type(tx[1].data) = MSG_HELLO
    /\ hdr_bitmask_len(tx[1].data) = 1
    /\ parse_incoming_packet(tx[1].data).bitmask = <<0>>

---------------------------------------------------------------------------
(* Properties of the datagrams that match no transition                    *)

\* a well-formed datagram for which the state the badge is in has no
\* transition
Unmatched(i) ==
    LET ty == hdr_msg_type(i.data)
    IN  /\ Parses(i.data)
        /\ \/ /\ Ctx.current_state = SEARCHING
              /\ ty \notin {MSG_HELLO, MSG_PROPOSAL}
           \/ /\ Ctx.current_state = PROPOSING
              /\ \/ ty \in {MSG_ACCEPT, MSG_REJECT} /\ ~FromPartner(i)
                 \/ ty = MSG_HELLO
           \/ /\ Ctx.current_state = PAIRED
              /\ \/ /\ ty \in {MSG_HEARTBEAT, MSG_KEY_EXCHANGE, MSG_RELAY_URL}
                    /\ ~FromPartner(i)
                 \/ ty \in {MSG_HELLO, MSG_ACCEPT, MSG_REJECT}

\* C38: a well-formed datagram that matches no transition leaves the context
\* unchanged, sends nothing, notifies nothing and registers no peer: in
\* SEARCHING every type but HELLO and PROPOSAL; in PROPOSING an ACCEPT or
\* REJECT from another address than the partner's and every HELLO; in PAIRED
\* a HEARTBEAT, KEY_EXCHANGE or RELAY_URL from another address than the
\* partner's and every HELLO, ACCEPT and REJECT.
C38_UnmatchedIgnored ==
    \A i \in {u \in AnyInputs \cup Heartbeats \cup RelayInputs : Unmatched(u)} :
        IsNoOp(AfterRecv(i))

\* the badge, PROPOSING to MacX, has just been handed a HELLO that MacX
\* broadcast, and is PROPOSING as before with nothing sent
C38_Witness ==
    /\ op.name = "recv" /\ op.b = Me
    /\ op.msg = MSG_HELLO
    /\ op.was = PROPOSING
    /\ Ctx.current_state = PROPOSING
    /\ Ctx.partner_mac = MacX
    /\ tx = <<>> /\ ble = <<>>


---------------------------------------------------------------------------
(* Properties of reconfiguring a ready badge                               *)

\* arguments pairing_set_bitmask rejects: NULL data, length 0, a length above
\* the maximum
InvalidBitmaskArgs ==
    {a \in BitmaskArgs : a.data = NULL \/ a.len = 0 \/ a.len > PAIRING_BITMASK_MAX_LEN}
       \cup {[data |-> NULL, len |-> 0], [data |-> NULL, len |-> PAIRING_BITMASK_MAX_LEN + 1]}

\* a pairing_set_pubkey call with a key on a badge that is ready, or ready
\* after the call, leaves the badge as a full reset does
PubkeyResets ==
    \A k \in KeyValues : \A c \in {AfterSetPubkey(k)} :
        (pairing_is_ready(Ctx) \/ pairing_is_ready(c)) => TornDown(c) /\ pairing_is_ready(c)

\* a pairing_set_bitmask call with valid arguments on a badge that is ready,
\* or ready after the call, leaves the badge as a full reset does, whatever
\* malloc returns
BitmaskResets(results) ==
    \A m \in BitmaskValues, malloc_ok \in results :
        \A c \in {AfterSetBitmask(m, Len(m), malloc_ok)} :
            (pairing_is_ready(Ctx) \/ pairing_is_ready(c)) => TornDown(c) /\ pairing_is_ready(c)

InvalidBitmaskIgnored ==
    \A a \in InvalidBitmaskArgs, malloc_ok \in BOOLEAN :
        AfterSetBitmask(a.data, a.len, malloc_ok) = Ctx

\* C39: pairing_set_pubkey or pairing_set_bitmask called with valid
\* arguments on a context that is, or thereby becomes, ready leaves the badge
\* SEARCHING with partner address, partner key, partner bitmask and
\* key-exchange state discarded; a pairing_set_bitmask call with NULL data,
\* length 0 or a length above the maximum changes nothing.
C39_SettersReset ==
    /\ PubkeyResets
    /\ BitmaskResets(BOOLEAN)
    /\ InvalidBitmaskIgnored

\* pairing_set_bitmask with valid arguments has just returned on a PAIRED
\* badge whose allocation failed: the badge is still PAIRED with its partner
\* and has lost its own bitmask buffer
C39_NoResetOnFailure ==
    /\ op.name = "set_bitmask"
    /\ op.was = PAIRED
    /\ Ctx.current_state = PAIRED
    /\ Ctx.partner_mac # ZeroMac
    /\ strlen(Ctx.partner_public_key) > 0
    /\ Ctx.kex.active
    /\ Ctx.has_bitmask /\ Ctx.bitmask = NULL

===========================================================================
